---- MODULE Spec2Model ----
(***************************************************************************)
(* Model of the video-description API: the TaskTracker                     *)
(* (app/core/task_tracker.py), the submit and poll handlers and the        *)
(* background pipeline analyze_video_task                                  *)
(* (app/api/routes/video_analysis.py), and the two stage-1 branches        *)
(* process_video (app/services/video_processor.py) and process_audio       *)
(* (app/services/audio_processor.py).                                      *)
(*                                                                         *)
(* Everything runs on one asyncio event loop: a coroutine runs without     *)
(* interruption from one suspension point (an await that really yields:    *)
(* asyncio.gather, loop.run_in_executor) to the next.  Each action below   *)
(* is one such uninterrupted run.  Blocking calls (requests.get,           *)
(* requests.post, time.sleep, cv2, pydub) do not yield, so they are inside *)
(* an action.                                                              *)
(***************************************************************************)
EXTENDS Integers, Sequences, FiniteSets, TLC

\* ------------------------------------------------------------------ bounds

\* Longest video duration, in whole minutes, that a submission carries.
MaxMinutes == 2
\* Largest number of 10-minute audio chunks of a submission.
MaxChunks == 2
\* Longest text the metadata model returns for no_of_person_in_video.
MaxTextLen == 2
\* Longest clip, in minutes, whose segment count is computed.
MaxClipMinutes == 20
\* Longest audio track that is chunked, in steps of five minutes.
MaxAudioSteps == 5
\* Largest frame count of a segment handed to extract_frames.
MaxSegmentFrames == 60
\* Last second of the wall clock read by two tasks that run together.
MaxSeconds == 1

\* ------------------------------------------------------- program constants

MAX_RETRIES == 3

\* Task IDs are uuid4 values, fresh for every submission; tasks share nothing
\* but the tables keyed by task ID.
TaskIds == {"t1"}

None == "None"

\* Configured values of app.core.config.settings (any non-empty strings).
EMPOWERVERSE_API_PATH == "https://empowerverse.example"
WEMOTIONS_API_PATH == "https://wemotions.example"

\* ---------------------------------------------------------------- numbers
\* Progress values are Python numbers; 7 / num_parts and 5 / num_chunks are
\* not whole in general, so a number is a reduced fraction <<num, den>>.

RECURSIVE GCD(_, _)
GCD(a, b) == IF b = 0 THEN a ELSE GCD(b, a % b)

Frac(n, d) == LET g == GCD(n, d) IN <<n \div g, d \div g>>

Num(n) == <<n, 1>>

Less(a, b) == a[1] * b[2] < b[1] * a[2]

IsWhole(a) == a[2] = 1

\* ---------------------------------------------------------- python dicts
\* A dict is a function whose DOMAIN is its key set.

EmptyDict == [k \in {} |-> None]

DictSet(d, k, v) == [x \in (DOMAIN d) \cup {k} |-> IF x = k THEN v ELSE d[x]]

\* ------------------------------------------------------------ TaskTracker
\* A task record: status, current_progress, steps (an insertion-ordered dict,
\* here a sequence of [name, progress, ended]) and whether end_time is set.
\* Timestamps are kept as presence only.

NewTask == [status |-> "in_progress", current_progress |-> Num(0),
            steps |-> <<>>, ended |-> FALSE]

start_task(T, task_id) == DictSet(T, task_id, NewTask)

StepIndex(steps, step_name) ==
    IF \E i \in 1..Len(steps) : steps[i].name = step_name
    THEN CHOOSE i \in 1..Len(steps) : steps[i].name = step_name
    ELSE 0

\* The overall progress kept when a lower value is reported.
StoredProgress_Highest(old, progress) ==
    IF progress[1] * old[2] < old[1] * progress[2] THEN old ELSE progress

\* The overall progress update_progress stores: the value it was given.
StoredProgress(old, progress) == progress

update_progress(T, task_id, step_name, progress) ==
    LET T1 == IF task_id \in DOMAIN T THEN T ELSE start_task(T, task_id)
        rec == T1[task_id]
        i == StepIndex(rec.steps, step_name)
        steps1 == IF i = 0
                  THEN Append(rec.steps, [name |-> step_name, progress |-> progress,
                                          ended |-> FALSE])
                  ELSE [rec.steps EXCEPT ![i].progress = progress]
    IN DictSet(T1, task_id,
               [rec EXCEPT !.steps = steps1,
                           !.current_progress = StoredProgress(rec.current_progress, progress)])

complete_step(T, task_id, step_name) ==
    IF task_id \in DOMAIN T /\ StepIndex(T[task_id].steps, step_name) # 0
    THEN LET i == StepIndex(T[task_id].steps, step_name)
         IN [T EXCEPT ![task_id].steps[i].ended = TRUE]
    ELSE T

\* complete_task raises ValueError when the task is unknown: callers below
\* guard on task_id \in DOMAIN T.
complete_task(T, task_id, status) ==
    [T EXCEPT ![task_id].ended = TRUE,
              ![task_id].status = status,
              ![task_id].current_progress = Num(100)]

\* A run of update_progress calls made without yielding: updates is a
\* sequence of <<step_name, progress>>.
RECURSIVE UpdateAll(_, _, _)
UpdateAll(T, task_id, updates) ==
    IF updates = <<>> THEN T
    ELSE UpdateAll(update_progress(T, task_id, updates[1][1], updates[1][2]),
                   task_id, Tail(updates))

\* The data file: absent, a JSON document holding a task table, or a file
\* that json.load cannot parse.
StoreAbsent == [state |-> "absent"]

StoreCorrupt == [state |-> "corrupt"]

\* json.dump writes the table as a JSON object, record by record and field by
\* field; every value in a task record is a str, an int, a float or a dict
\* with str keys, which JSON represents and json.load gives back as the same
\* Python value.
json(T) ==
    [task_id \in DOMAIN T |->
        [status |-> T[task_id].status,
         current_progress |-> <<T[task_id].current_progress[1], T[task_id].current_progress[2]>>,
         steps |-> [i \in 1..Len(T[task_id].steps) |->
                      [name |-> T[task_id].steps[i].name,
                       progress |-> <<T[task_id].steps[i].progress[1],
                                      T[task_id].steps[i].progress[2]>>,
                       ended |-> T[task_id].steps[i].ended]],
         ended |-> T[task_id].ended]]

StoreFile(T) == [state |-> "file", tasks |-> json(T)]

\* What one save_data call does: the file is rewritten; or open() fails and
\* the file is as before; or open() has truncated the file and the dump
\* fails part way.  Both failures are caught and printed.
WriteOutcomes == {"written", "open_failed", "dump_failed"}

save_data(old, T, outcome) ==
    IF outcome = "written" THEN StoreFile(T)
    ELSE IF outcome = "open_failed" THEN old
    ELSE StoreCorrupt

\* load_data on a new TaskTracker: the table of the file, or {} when the
\* file is absent or cannot be parsed.
load_data(file) == IF file.state = "file" THEN file.tasks ELSE EmptyDict

\* ------------------------------------------------------------ python values
\* Query parameters and the values passed along are Python objects; they are
\* written as strings: "None", "True", "False", or the text of a str.

Truthy(v) == v \notin {"None", "False", ""}

\* The two upstream applications (share_url derives no other app_name).
AppNames == {"empowerverse", "wemotions"}
\* The identifier is any text the client chooses: an opaque one, or one that
\* happens to be an application name.
Identifiers == {None, "id1", "empowerverse"}
Flags == {"True", "False"}

\* What one requests.get(file_url) does: return a response, or raise a
\* requests.RequestException (transport error).
FetchOutcomes ==
    {[raised |-> FALSE, status_code |-> 200],
     [raised |-> FALSE, status_code |-> 404],
     [raised |-> TRUE, status_code |-> 0]}

\* What requests.post(api_url, json=payload) does on a usable URL.
PostOutcomes ==
    {[raised |-> FALSE, status_code |-> 200],
     [raised |-> FALSE, status_code |-> 500],
     [raised |-> TRUE, status_code |-> 0]}

\* ------------------------------------------------------------------ state

VARIABLES
    tasks,             \* TaskTracker.tasks: task ID -> task record
    analysis_results,  \* video_analysis.analysis_results: task ID -> result
    request,           \* task ID -> the submission analyze_video received
    response,          \* task ID -> what analyze_video returned
    fetched,           \* task ID -> outcomes of the requests.get calls the
                       \* handler made, kept until its background task starts
    background_tasks,  \* task ID -> argument records given to add_task
    pc,                \* task ID -> position of analyze_video_task
    video_task,        \* task ID -> state of the process_video coroutine
    audio_task,        \* task ID -> state of the process_audio coroutine
    frame,             \* task ID -> locals of analyze_video_task
    posted,            \* task ID -> the requests.post calls made
    store,             \* the file docs/data_record.json
    disk               \* media files followed across tasks: path -> the task
                       \* whose write the file holds

vars == <<tasks, analysis_results, request, response, fetched, background_tasks,
          pc, video_task, audio_task, frame, posted, store, disk>>

\* ----------------------------------------------------------- analyze_video

\* Positional arguments of add_task(analyze_video_task, ...) on the URL path:
\* file_content, filename, task_id, app_name, identifier, is_christian_content.
UrlArgs(req) ==
    [app_name |-> req.app_name, identifier |-> req.identifier,
     is_christian_content |-> req.is_christian_content]

\* On the upload path the call passes video_content, video.filename, task_id,
\* identifier, is_christian_content: app_name is left out, so identifier binds
\* to the app_name parameter, is_christian_content to identifier, and
\* is_christian_content takes its default False.
UploadArgs(req) ==
    [app_name |-> req.identifier, identifier |-> req.is_christian_content,
     is_christian_content |-> "False"]

\* The attempt index the loop continues with after a 200: `break` ends it.
AfterSuccess_NoBreak(attempt) == attempt + 1

AfterSuccess(attempt) == MAX_RETRIES

\* for attempt in range(MAX_RETRIES): outcomes[k] is what the k-th
\* requests.get does if it is made.  Returns the outcomes of the calls made,
\* the add_task calls, and whether a RequestException left the loop.
RECURSIVE FetchLoop(_, _, _, _, _)
FetchLoop(req, outcomes, attempt, log, added) ==
    IF attempt >= MAX_RETRIES
    THEN [log |-> log, added |-> added, raised |-> FALSE]
    ELSE LET r == outcomes[attempt + 1]
             log1 == Append(log, r)
         IN IF r.raised
            THEN [log |-> log1, added |-> added, raised |-> TRUE]
            ELSE IF r.status_code = 200
                 THEN FetchLoop(req, outcomes, AfterSuccess(attempt), log1,
                                Append(added, UrlArgs(req)))
                 ELSE FetchLoop(req, outcomes, attempt + 1, log1, added)

Started(task_id) == [message |-> "Video analysis started.", task_id |-> task_id]

Failed == [error |-> "Failed to process video"]

\* The handler's result: its response, the fetches made, the runs scheduled.
analyze_video(task_id, req, outcomes) ==
    IF req.mode = "file_url"
    THEN LET f == FetchLoop(req, outcomes, 0, <<>>, <<>>)
         IN [response |-> IF f.raised THEN Failed ELSE Started(task_id),
             fetched |-> f.log, added |-> f.added]
    ELSE IF req.mode = "video"
    THEN [response |-> Started(task_id), fetched |-> <<>>,
          added |-> <<UploadArgs(req)>>]
    ELSE [response |-> Started(task_id), fetched |-> <<>>, added |-> <<>>]

Requests ==
    [mode : {"file_url", "video", "neither"}, app_name : AppNames,
     identifier : Identifiers, is_christian_content : Flags]

Submit(t) ==
    /\ t \notin DOMAIN request
    /\ \E req \in Requests, outcomes \in [1..MAX_RETRIES -> FetchOutcomes] :
          LET h == analyze_video(t, req, outcomes)
          IN /\ request' = DictSet(request, t, req)
             /\ response' = DictSet(response, t, h.response)
             /\ fetched' = DictSet(fetched, t, h.fetched)
             /\ background_tasks' = DictSet(background_tasks, t, h.added)
    /\ UNCHANGED <<disk, tasks, analysis_results, pc, video_task, audio_task, frame,
                   posted, store>>

\* Every TaskTracker call of a pipeline step ends in save_data; the pipeline
\* is followed on a disk that takes every write.
Saved == store' = save_data(store, tasks', "written")

\* ------------------------------------------------------------ process_video

Min(a, b) == IF a < b THEN a ELSE b
Max(a, b) == IF a > b THEN a ELSE b

\* int(x) of a Python float, here a fraction: truncation towards zero.
Truncate(x) == IF x[1] >= 0 THEN x[1] \div x[2] ELSE 0 - ((0 - x[1]) \div x[2])

\* duration = total_frames / fps if fps > 0 else 0, in seconds; fps is a
\* fraction.
Duration(total_frames, fps) ==
    IF fps[1] > 0 THEN Frac(total_frames * fps[2], fps[1]) ELSE Num(0)

\* int(minutes), with minutes = duration / 60
Minutes(total_frames, fps) ==
    LET duration == Duration(total_frames, fps)
    IN Truncate(Frac(duration[1], duration[2] * 60))

\* The count without its upper limit.
NumParts_NoCap(minutes) == Max(1, minutes)

\* num_parts = min(5, max(1, int(minutes)))
NumParts(minutes) == Min(5, Max(1, minutes))

\* The ascending sequence of the elements of a set of integers.
RECURSIVE SortedSeq(_)
SortedSeq(S) ==
    IF S = {} THEN <<>>
    ELSE LET m == CHOOSE x \in S : \A y \in S : x <= y
         IN <<m>> \o SortedSeq(S \ {m})

\* split_video's update_progress calls up to the point where it fails or ends.
SplitUpdates(opened, num_parts) ==
    <<<<"Saving video to temporary file", Num(6)>>,
      <<"Opening video file", Num(7)>>>>
    \o (IF ~opened THEN <<>>
        ELSE <<<<"Calculating video parts", Num(8)>>>>
             \o [i \in 1..num_parts |->
                   <<"Processing video part " \o ToString(i) \o "/" \o ToString(num_parts),
                     Frac(8 * num_parts + (i - 1) * 7, num_parts)>>]
             \o <<<<"Video splitting completed", Num(15)>>>>)

NoVideo == [pc |-> "none", num_parts |-> 0,
            result |-> [is_safe |-> FALSE, warnings |-> <<>>, valid_grids |-> <<>>]]

\* What process_video returns from its except clause.
VideoError == [is_safe |-> FALSE, warnings |-> <<"Processing error">>, valid_grids |-> <<>>]

\* process_video from its start to its first suspension, the gather over the
\* extract_frames coroutines (split_video has no await that yields).  When
\* cv2 cannot open the file split_video raises and process_video returns the
\* error triple.
VideoSplit(t) ==
    /\ pc[t] = "gather"
    /\ video_task[t].pc = "created"
    /\ \E opened \in BOOLEAN, minutes \in 0..MaxMinutes :
          LET n == NumParts(minutes)
              ups == <<<<"Starting video processing", Num(5)>>>>
                     \o SplitUpdates(opened, n)
                     \o (IF opened THEN <<<<"Video split completed", Num(15)>>>> ELSE <<>>)
          IN /\ tasks' = UpdateAll(tasks, t, ups)
             /\ video_task' = [video_task EXCEPT ![t] =
                   IF opened
                   THEN [pc |-> "extracting", num_parts |-> n, result |-> NoVideo.result]
                   ELSE [pc |-> "done", num_parts |-> 0, result |-> VideoError]]
    /\ UNCHANGED <<disk, analysis_results, request, response, fetched, background_tasks,
                   pc, audio_task, frame, posted>>
    /\ Saved

\* The extract_frames coroutines run (each yields a grid or None), then
\* process_video continues to the moderation call, or returns when no grid is
\* valid.  audio_task was created before the extract_frames tasks, so its
\* first run comes before them.
VideoFrames(t) ==
    /\ video_task[t].pc = "extracting"
    /\ audio_task[t].pc # "created"
    /\ \E valid \in SUBSET (1..video_task[t].num_parts) :
          IF valid # {}
          THEN /\ tasks' = UpdateAll(tasks, t,
                     <<<<"Frame extraction completed", Num(25)>>,
                       <<"Starting content moderation", Num(30)>>>>)
               /\ video_task' = [video_task EXCEPT ![t].pc = "moderating",
                                    ![t].result.valid_grids = SortedSeq(valid)]
          ELSE /\ tasks' = UpdateAll(tasks, t,
                     <<<<"Frame extraction completed", Num(25)>>>>)
               /\ video_task' = [video_task EXCEPT ![t].pc = "done",
                      ![t].num_parts = 0,
                      ![t].result = [is_safe |-> FALSE,
                                     warnings |-> <<"No valid frames extracted">>,
                                     valid_grids |-> <<>>]]
    /\ UNCHANGED <<disk, analysis_results, request, response, fetched, background_tasks,
                   pc, audio_task, frame, posted>>
    /\ Saved

\* What check_content_moderation returns (its except clause returns unsafe).
ModerationOutcomes ==
    {[is_safe |-> TRUE, warnings |-> <<"Content Moderation Timestamp">>],
     [is_safe |-> FALSE, warnings |-> <<"CRITICAL RISK">>]}

\* check_content_moderation has returned; process_video returns its triple.
VideoModerated(t) ==
    /\ video_task[t].pc = "moderating"
    /\ \E m \in ModerationOutcomes :
          video_task' = [video_task EXCEPT ![t].pc = "done",
                            ![t].num_parts = 0,
                            ![t].result.is_safe = m.is_safe,
                            ![t].result.warnings = m.warnings]
    /\ tasks' = UpdateAll(tasks, t, <<<<"Content moderation completed", Num(35)>>>>)
    /\ UNCHANGED <<disk, analysis_results, request, response, fetched, background_tasks,
                   pc, audio_task, frame, posted>>
    /\ Saved

\* ------------------------------------------------------------ process_audio

PyList(items) == [type |-> "list", items |-> items]
PyDict(d) == [type |-> "dict", items |-> d]

RECURSIVE JoinSpace_NoSeparator(_)
JoinSpace_NoSeparator(strs) ==
    IF strs = <<>> THEN ""
    ELSE strs[1] \o JoinSpace_NoSeparator(Tail(strs))

RECURSIVE JoinSpace(_)
JoinSpace(strs) ==
    IF strs = <<>> THEN ""
    ELSE IF Len(strs) = 1 THEN strs[1]
    ELSE strs[1] \o " " \o JoinSpace(Tail(strs))

AudioErrorMsg == "Error in audio processing"

\* How a failure inside process_audio leaves it: its except clause reports
\* the error step and returns ([{"error": ...}], None).
AudioFailure_Raises == "raised"

AudioFailure == "done"

AudioErrorResult == <<PyList(<<PyDict([error |-> AudioErrorMsg])>>), None>>

\* audio_filename: the extracted audio track in the output folder.
audio_filename == "extracted_audio.wav"

AudioOkResult(transcriptions) ==
    <<PyList(<<PyDict([text |-> JoinSpace(transcriptions)])>>), audio_filename>>

NoAudio == [pc |-> "none", num_chunks |-> 0, i |-> 0, transcriptions |-> <<>>,
            result |-> <<PyList(<<>>), None>>]

\* The coroutine is over: its locals are gone, its result stays.
AudioReturned(result) == [NoAudio EXCEPT !.pc = "done", !.result = result]

AudioFailed == [NoAudio EXCEPT !.pc = AudioFailure, !.result = AudioErrorResult]

AudioErrorUpdate == <<<<"Error: " \o AudioErrorMsg, Num(35)>>>>

AudioDoneUpdates ==
    <<<<"Audio transcription completed", Num(35)>>,
      <<"Audio processing completed", Num(40)>>>>

\* process_audio from its start to the first transcription await.  loadable:
\* AudioSegment.from_file and the export succeed; oversize: the first chunk
\* is over MAX_CHUNK_SIZE.
AudioStart(t) ==
    /\ audio_task[t].pc = "created"
    /\ video_task[t].pc # "created"
    /\ \E loadable \in BOOLEAN, num_chunks \in 0..MaxChunks, oversize \in BOOLEAN :
          LET a == [audio_task[t] EXCEPT !.num_chunks = num_chunks]
              saved == <<<<"Video file saved", Num(10)>>>>
              loaded == saved \o
                  <<<<"Video loaded for audio extraction", Num(15)>>,
                    <<"Audio extracted and saved", Num(25)>>,
                    <<"Starting audio transcription", Num(30)>>>>
          IN IF ~loadable
             THEN /\ tasks' = UpdateAll(tasks, t, saved \o AudioErrorUpdate)
                  /\ audio_task' = [audio_task EXCEPT ![t] = AudioFailed]
             ELSE IF num_chunks = 0
             THEN /\ tasks' = UpdateAll(tasks, t, loaded \o AudioDoneUpdates)
                  /\ audio_task' = [audio_task EXCEPT ![t] =
                        AudioReturned(AudioOkResult(<<>>))]
             ELSE IF oversize
             THEN /\ tasks' = UpdateAll(tasks, t, loaded \o AudioErrorUpdate)
                  /\ audio_task' = [audio_task EXCEPT ![t] = AudioFailed]
             ELSE /\ tasks' = UpdateAll(tasks, t, loaded)
                  /\ audio_task' = [audio_task EXCEPT ![t] =
                        [a EXCEPT !.pc = "transcribing", !.i = 1]]
    /\ UNCHANGED <<disk, analysis_results, request, response, fetched, background_tasks,
                   pc, video_task, frame, posted>>
    /\ Saved

\* What transcribe_audio_with_gemini returns for chunk i: the text, or (from
\* its except clause) an error string.
Transcriptions(i) == {"text" \o ToString(i), "Transcription error"}

\* The transcription of chunk i has returned: report it, then go on to the
\* next chunk's export, size check and transcription, or finish.
AudioChunk(t) ==
    /\ audio_task[t].pc = "transcribing"
    /\ \E text \in Transcriptions(audio_task[t].i), oversize \in BOOLEAN :
          LET a0 == audio_task[t]
              i == a0.i
              n == a0.num_chunks
              a == [a0 EXCEPT !.transcriptions = Append(a0.transcriptions, text)]
              chunk == <<<<"Transcribed chunk " \o ToString(i) \o "/" \o ToString(n),
                           Frac(30 * n + i * 5, n)>>>>
          IN IF i = n
             THEN /\ tasks' = UpdateAll(tasks, t, chunk \o AudioDoneUpdates)
                  /\ audio_task' = [audio_task EXCEPT ![t] =
                        AudioReturned(AudioOkResult(a.transcriptions))]
             ELSE IF oversize
             THEN /\ tasks' = UpdateAll(tasks, t, chunk \o AudioErrorUpdate)
                  /\ audio_task' = [audio_task EXCEPT ![t] = AudioFailed]
             ELSE /\ tasks' = UpdateAll(tasks, t, chunk)
                  /\ audio_task' = [audio_task EXCEPT ![t] = [a EXCEPT !.i = i + 1]]
    /\ UNCHANGED <<disk, analysis_results, request, response, fetched, background_tasks,
                   pc, video_task, frame, posted>>
    /\ Saved

\* ------------------------------------------------------- analyze_video_task

NoFrame ==
    [app_name |-> None, identifier |-> None, is_christian_content |-> "False",
     is_safe |-> FALSE, content_warnings |-> <<>>, base64_grids |-> <<>>,
     audio_transcription |-> "", idx |-> 0, grid_descriptions |-> <<>>,
     description |-> "", metadata |-> EmptyDict,
     generate_description_calls |-> 0, extract_video_metadata_calls |-> 0]

ErrorResult(message) == [status |-> "error", message |-> message]

\* The background task starts: start_task, the first progress report, the two
\* branch tasks are created and the coroutine waits in asyncio.gather.
Start(t) ==
    /\ pc[t] = "not_started"
    /\ t \in DOMAIN background_tasks
    /\ background_tasks[t] # <<>>
    /\ LET args == background_tasks[t][1]
       IN frame' = [frame EXCEPT ![t] =
             [NoFrame EXCEPT !.app_name = args.app_name,
                             !.identifier = args.identifier,
                             !.is_christian_content = args.is_christian_content]]
    /\ tasks' = UpdateAll(start_task(tasks, t), t,
                          <<<<"Starting parallel processing", Num(0)>>>>)
    /\ pc' = [pc EXCEPT ![t] = "gather"]
    /\ video_task' = [video_task EXCEPT ![t].pc = "created"]
    /\ audio_task' = [audio_task EXCEPT ![t].pc = "created"]
    /\ fetched' = [x \in (DOMAIN fetched) \ {t} |-> fetched[x]]
    /\ UNCHANGED <<disk, analysis_results, request, response, background_tasks, posted>>
    /\ Saved

\* asyncio.gather(video_task, audio_task) without return_exceptions: it
\* returns when both tasks have returned, and raises as soon as one raises.
GatherRaised(t) == video_task[t].pc = "raised" \/ audio_task[t].pc = "raised"

GatherReturned(t) == video_task[t].pc = "done" /\ audio_task[t].pc = "done"

\* Lines 54-64: audio_result is the tuple (result list, audio_filename), so
\* first_result is the list: neither a dict nor an object with a text attribute.
AudioTranscription(audio_result) ==
    IF Len(audio_result) > 0
    THEN LET first_result == audio_result[1]
         IN IF first_result.type = "dict" /\ "text" \in DOMAIN first_result.items
            THEN first_result.items.text
            ELSE ""
    ELSE ""

\* `if not base64_grids`
NoGrids_Never(base64_grids) == FALSE

NoGrids(base64_grids) == base64_grids = <<>>

GridStep(idx, total) ==
    <<"Analyzing grid image " \o ToString(idx) \o "/" \o ToString(total),
      Num(65 + ((idx * 5) \div total))>>

\* generate_description up to its first suspension: the first grid's vision
\* call, or the final call when there is no grid.
DescriptionStart(total) ==
    <<<<"Generating description", Num(40)>>, <<"Starting grid analysis", Num(65)>>>>
    \o (IF total > 0 THEN <<GridStep(1, total)>>
        ELSE <<<<"Generating final description", Num(70)>>>>)

\* The except clause of analyze_video_task (lines 192-195) on the task table.
Except(T, t) == complete_task(T, t, "error")

\* Both branches are over: unpack, decide on the grids, start the description.
Joined(t) ==
    /\ pc[t] = "gather"
    /\ GatherRaised(t) \/ GatherReturned(t)
    /\ IF GatherRaised(t)
       THEN /\ tasks' = Except(tasks, t)
            /\ analysis_results' = DictSet(analysis_results, t, ErrorResult("branch error"))
            /\ pc' = [pc EXCEPT ![t] = "returned"]
            /\ frame' = frame
       ELSE LET v == video_task[t].result
                unpacked == UpdateAll(tasks, t,
                    <<<<"Parallel processing completed", Num(20)>>,
                      <<"Video processing results unpacked", Num(30)>>,
                      <<"Audio transcription extracted", Num(40)>>>>)
                f == [frame[t] EXCEPT !.is_safe = v.is_safe,
                                      !.content_warnings = v.warnings,
                                      !.base64_grids = v.valid_grids,
                                      !.audio_transcription =
                                          AudioTranscription(audio_task[t].result)]
                total == Len(v.valid_grids)
            IN IF NoGrids(v.valid_grids)
               THEN /\ tasks' = complete_task(unpacked, t, "error")
                    /\ analysis_results' = DictSet(analysis_results, t,
                          ErrorResult("No valid frames could be extracted from the video"))
                    /\ pc' = [pc EXCEPT ![t] = "returned"]
                    /\ frame' = [frame EXCEPT ![t] = f]
               ELSE /\ tasks' = UpdateAll(unpacked, t, DescriptionStart(total))
                    /\ analysis_results' = analysis_results
                    /\ pc' = [pc EXCEPT ![t] = IF total > 0 THEN "grid" ELSE "final"]
                    /\ frame' = [frame EXCEPT ![t] =
                          [f EXCEPT !.idx = IF total > 0 THEN 1 ELSE 0,
                                    !.generate_description_calls = @ + 1]]
    /\ UNCHANGED <<request, response, fetched, background_tasks, video_task, posted>>
    /\ Saved

Join(t) == Joined(t) /\ UNCHANGED <<audio_task, disk>>

GridErrorMsg == "Error in analyzing grid images"

\* The vision call for grid idx has returned or raised.  A raise leaves the
\* loop through analyze_grid_images' except clause, which returns [error_msg].
GridAnalyzed(t) ==
    /\ pc[t] = "grid"
    /\ \E ok \in BOOLEAN :
          LET f == frame[t]
              total == Len(f.base64_grids)
              final == <<<<"Generating final description", Num(70)>>>>
          IN IF ~ok
             THEN /\ tasks' = UpdateAll(tasks, t,
                        <<<<"Error: " \o GridErrorMsg, Num(70)>>>> \o final)
                  /\ frame' = [frame EXCEPT ![t].grid_descriptions = <<GridErrorMsg>>]
                  /\ pc' = [pc EXCEPT ![t] = "final"]
             ELSE LET ds == Append(f.grid_descriptions, "grid " \o ToString(f.base64_grids[f.idx]))
                  IN IF f.idx < total
                     THEN /\ tasks' = UpdateAll(tasks, t, <<GridStep(f.idx + 1, total)>>)
                          /\ frame' = [frame EXCEPT ![t].grid_descriptions = ds,
                                                    ![t].idx = f.idx + 1]
                          /\ pc' = pc
                     ELSE /\ tasks' = UpdateAll(tasks, t, final)
                          /\ frame' = [frame EXCEPT ![t].grid_descriptions = ds]
                          /\ pc' = [pc EXCEPT ![t] = "final"]
    /\ UNCHANGED <<disk, analysis_results, request, response, fetched, background_tasks,
                   video_task, audio_task, posted>>
    /\ Saved

\* The final description call has returned or raised; generate_description
\* returns (the text or its error message) and extract_video_metadata starts.
Described(t) ==
    /\ pc[t] = "final"
    /\ \E ok \in BOOLEAN :
          /\ tasks' = UpdateAll(tasks, t,
                <<<<IF ok THEN "Description generation completed"
                    ELSE "Error: Error in generate_description", Num(75)>>,
                  <<"Description generated", Num(60)>>,
                  <<"Extracting metadata", Num(60)>>>>)
          /\ frame' = [frame EXCEPT
                ![t].description = IF ok THEN "description"
                                   ELSE "Error in generate_description",
                ![t].grid_descriptions = <<>>,
                ![t].idx = 0,
                ![t].extract_video_metadata_calls = @ + 1]
    /\ pc' = [pc EXCEPT ![t] = "metadata"]
    /\ UNCHANGED <<disk, analysis_results, request, response, fetched, background_tasks,
                   video_task, audio_task, posted>>
    /\ Saved

\* ---------------------------------------------------- extract_video_metadata

\* What json.loads of the model's answer gives.  A call that raises, or an
\* answer that is not JSON, makes extract_video_metadata return {}.
MetadataRecords ==
    {[keywords |-> <<"kw">>, is_face_exist |-> TRUE, topics |-> <<"topic">>],
     [keywords |-> <<"kw">>]}

\* What analyze_christian_content returns.
ChristianRecords ==
    {[is_christian |-> TRUE, confidence_score |-> "0.9", indicators |-> <<"cross">>],
     [is_christian |-> FALSE]}

\* ----------------------------------------------------------- the result

Get(d, k, default) == IF k \in DOMAIN d THEN d[k] ELSE default

Merge(a, b) == [k \in (DOMAIN a) \cup (DOMAIN b) |-> IF k \in DOMAIN b THEN b[k] ELSE a[k]]

\* Every key emitted, an absent one with a default.
Restrict_Defaulted(d, keys) == [k \in keys |-> Get(d, k, None)]

\* `if key in d: result[key] = d[key]` over keys.
Restrict(d, keys) == [k \in (DOMAIN d) \cap keys |-> d[k]]

RequiredFields ==
    {"status", "description", "is_safe", "content_warnings", "keywords", "is_face_exist"}

\* The optional fields copied when metadata has them (lines 101-139).
CopiedFields ==
    {"topics", "entities", "actions", "emotions", "visual_elements", "audio_elements",
     "genre", "target_audience", "quality_indicators", "unique_identifiers",
     "person_identity", "other_person_identity", "psychological_personality"}

\* A str is the sequence of its characters; other values carry their type.
PyStr(chars) == [type |-> "str", chars |-> chars]
PyInt(n) == [type |-> "int", value |-> n]
PyFloat(fraction) == [type |-> "float", value |-> fraction]

\* Characters: decimal digits, a digit that is not decimal (superscript two),
\* a letter, a sign, a space.
SuperscriptTwo == "sup2"
Chars == {"0", "3", SuperscriptTwo, "a", "-", " "}
DecimalChars == {"0", "3"}
DigitChars == DecimalChars \cup {SuperscriptTwo}

DigitValue(c) == IF c = "3" THEN 3 ELSE 0

Texts == UNION {[1..n -> Chars] : n \in 0..MaxTextLen}

\* str.isdigit(): at least one character and every character a digit
\* (decimal digits, and digits such as superscripts).
isdigit(chars) == Len(chars) > 0 /\ \A i \in 1..Len(chars) : chars[i] \in DigitChars

RECURSIVE Strip(_)
Strip(chars) ==
    IF chars = <<>> THEN chars
    ELSE IF chars[1] = " " THEN Strip(Tail(chars))
    ELSE IF chars[Len(chars)] = " " THEN Strip(SubSeq(chars, 1, Len(chars) - 1))
    ELSE chars

RECURSIVE DecimalValue(_)
DecimalValue(chars) ==
    IF chars = <<>> THEN 0
    ELSE 10 * DecimalValue(SubSeq(chars, 1, Len(chars) - 1)) + DigitValue(chars[Len(chars)])

\* int(str): surrounding whitespace and one sign are accepted, then decimal
\* digits only; anything else raises ValueError.
int(chars) ==
    LET body == Strip(chars)
        signed == body # <<>> /\ body[1] = "-"
        digits == IF signed THEN Tail(body) ELSE body
    IN IF digits # <<>> /\ \A i \in 1..Len(digits) : digits[i] \in DecimalChars
       THEN [raised |-> FALSE,
             value |-> PyInt(IF signed THEN 0 - DecimalValue(digits) ELSE DecimalValue(digits))]
       ELSE [raised |-> TRUE, value |-> PyInt(0)]

\* Lines 141-146: the value stored for no_of_person_in_video.
NormalisePersons(value) ==
    IF value.type = "str"
    THEN IF isdigit(value.chars) THEN int(value.chars)
         ELSE [raised |-> FALSE, value |-> PyInt(0)]
    ELSE [raised |-> FALSE, value |-> value]

\* The assembly of the result raises (inside the try block of
\* analyze_video_task).
ResultRaises(metadata) ==
    /\ "no_of_person_in_video" \in DOMAIN metadata
    /\ NormalisePersons(metadata["no_of_person_in_video"]).raised

\* Lines 149-156.
ChristianContent(metadata) ==
    LET christianContent == Get(metadata, "is_christian_content", EmptyDict)
    IN [is_christian |-> Get(christianContent, "is_christian", FALSE),
        confidence_score |-> Get(christianContent, "confidence_score", None),
        indicators |-> Get(christianContent, "indicators", None)]

\* Lines 92-99 with the fields taken only when metadata has them.
RequiredResult_OnlyPresent(f, metadata) ==
    Merge([status |-> "completed", description |-> f.description,
           is_safe |-> f.is_safe, content_warnings |-> f.content_warnings],
          Restrict(metadata, {"keywords", "is_face_exist"}))

\* Lines 92-99: the six fields every completed result has.
RequiredResult(f, metadata) ==
    [status |-> "completed",
     description |-> f.description,
     is_safe |-> f.is_safe,
     content_warnings |-> f.content_warnings,
     keywords |-> Get(metadata, "keywords", <<>>),
     is_face_exist |-> Get(metadata, "is_face_exist", FALSE)]

\* Lines 91-156.
BuildResult(f, metadata) ==
    LET copied == Merge(RequiredResult(f, metadata), Restrict(metadata, CopiedFields))
        counted == IF "no_of_person_in_video" \in DOMAIN metadata
                   THEN Merge(copied, [no_of_person_in_video |->
                            NormalisePersons(metadata["no_of_person_in_video"]).value])
                   ELSE copied
    IN IF Truthy(f.is_christian_content)
       THEN Merge(counted, [is_christian_content |-> ChristianContent(metadata)])
       ELSE counted

\* ------------------------------------------------------------- the callback

\* Lines 169-173: the 'wemotions' branch evaluates the f-string and assigns
\* nothing, so api_url stays "".
ApiUrl(app_name) ==
    IF app_name = "empowerverse" THEN EMPOWERVERSE_API_PATH \o "/post/summary"
    ELSE ""

\* requests.post raises MissingSchema, before sending anything, on a URL with
\* no scheme; otherwise the network decides.
Post(api_url, net) ==
    IF api_url = "" THEN [raised |-> TRUE, status_code |-> 0] ELSE net

\* Lines 88-195 once metadata is there: the result is assembled and recorded,
\* the callback is sent when identifier is truthy, the task is completed.
\* A posted entry keeps, with the request, the status and progress the
\* tracker held for the task when requests.post was called.
\* requests.post blocks, so this is one uninterrupted run.  An exception of
\* requests.post reaches the except clause of analyze_video_task.
Finish(t, metadata) ==
    LET f == frame[t]
        result == BuildResult(f, metadata)
        compiled == UpdateAll(tasks, t,
            <<<<"Metadata extracted", Num(80)>>, <<"Results compiled", Num(90)>>>>)
        completed == <<<<"Task completed", Num(100)>>>>
    IN /\ frame' = [frame EXCEPT ![t].metadata = metadata]
       /\ pc' = [pc EXCEPT ![t] = "returned"]
       /\ IF ResultRaises(metadata)
          THEN /\ posted' = posted
               /\ tasks' = Except(UpdateAll(tasks, t, <<<<"Metadata extracted", Num(80)>>>>), t)
               /\ analysis_results' = DictSet(analysis_results, t,
                     ErrorResult("invalid literal for int()"))
          ELSE IF Truthy(f.identifier)
          THEN \E net \in PostOutcomes :
                 LET api_url == ApiUrl(f.app_name)
                     o == Post(api_url, net)
                     sending == UpdateAll(compiled, t, <<<<"Sending callback", Num(90)>>>>)
                 IN /\ posted' = [posted EXCEPT ![t] = Append(@,
                          [api_url |-> api_url, identifier |-> f.identifier,
                           result |-> result, outcome |-> o,
                           status |-> sending[t].status,
                           current_progress |-> sending[t].current_progress])]
                    /\ IF o.raised
                       THEN /\ tasks' = Except(sending, t)
                            /\ analysis_results' = DictSet(analysis_results, t,
                                  ErrorResult("request error"))
                       ELSE /\ tasks' = complete_task(UpdateAll(sending, t, completed),
                                                      t, "completed")
                            /\ analysis_results' = DictSet(analysis_results, t, result)
          ELSE /\ posted' = posted
               /\ tasks' = complete_task(UpdateAll(compiled, t, completed), t, "completed")
               /\ analysis_results' = DictSet(analysis_results, t, result)
       /\ Saved

\* The metadata call has returned `metadata`.  With the classification flag
\* set and a parsed answer, extract_video_metadata goes on to
\* analyze_christian_content; otherwise analyze_video_task runs to its end.
MetadataReturned(t, metadata) ==
    IF metadata # EmptyDict /\ Truthy(frame[t].is_christian_content)
    THEN /\ frame' = [frame EXCEPT ![t].metadata = metadata]
         /\ pc' = [pc EXCEPT ![t] = "christian"]
         /\ UNCHANGED <<tasks, analysis_results, posted, store>>
    ELSE Finish(t, metadata)

MetadataExtracted(t) ==
    /\ pc[t] = "metadata"
    /\ \E metadata \in MetadataRecords \cup {EmptyDict} : MetadataReturned(t, metadata)
    /\ UNCHANGED <<disk, request, response, fetched, background_tasks, video_task,
                   audio_task>>

\* analyze_christian_content has returned (it never raises).
ChristianAnalyzed(t) ==
    /\ pc[t] = "christian"
    /\ \E c \in ChristianRecords :
          Finish(t, Merge(frame[t].metadata, [is_christian_content |-> c]))
    /\ UNCHANGED <<disk, request, response, fetched, background_tasks, video_task,
                   audio_task>>

\* ------------------------------------------------------ get_analysis_result

LastStep(steps) == IF Len(steps) > 0 THEN steps[Len(steps)].name ELSE None

\* A handler that knows which IDs were submitted.
get_analysis_result_NotFound(task_id) ==
    IF task_id \in DOMAIN analysis_results
    THEN analysis_results[task_id]
    ELSE IF task_id \in DOMAIN tasks
    THEN [status |-> "pending", progress |-> tasks[task_id].current_progress,
          current_step |-> LastStep(tasks[task_id].steps)]
    ELSE [status |-> "not_found"]

get_analysis_result(task_id) ==
    IF task_id \in DOMAIN analysis_results
    THEN analysis_results[task_id]
    ELSE IF task_id \in DOMAIN tasks
    THEN [status |-> "pending", progress |-> tasks[task_id].current_progress,
          current_step |-> LastStep(tasks[task_id].steps)]
    ELSE [status |-> "pending", progress |-> Num(0)]

\* -------------------------------------------------------------- the system

Init ==
    /\ tasks = EmptyDict
    /\ analysis_results = EmptyDict
    /\ request = EmptyDict
    /\ response = EmptyDict
    /\ fetched = EmptyDict
    /\ background_tasks = EmptyDict
    /\ pc = [t \in TaskIds |-> "not_started"]
    /\ video_task = [t \in TaskIds |-> NoVideo]
    /\ audio_task = [t \in TaskIds |-> NoAudio]
    /\ frame = [t \in TaskIds |-> NoFrame]
    /\ posted = [t \in TaskIds |-> <<>>]
    /\ disk = EmptyDict
    /\ store = StoreAbsent

\* The steps of one task's background run.
TaskStep(t) ==
    \/ Start(t)
    \/ VideoSplit(t)
    \/ VideoFrames(t)
    \/ VideoModerated(t)
    \/ AudioStart(t)
    \/ AudioChunk(t)
    \/ Join(t)
    \/ GridAnalyzed(t)
    \/ Described(t)
    \/ MetadataExtracted(t)
    \/ ChristianAnalyzed(t)

Next ==
    \E t \in TaskIds :
        \/ Submit(t)
        \/ TaskStep(t)

Spec == Init /\ [][Next]_vars

\* ------------------------------------------- the TaskTracker on its own
\* The tracker as a component: its four mutating methods called by any
\* caller, in any order, with any arguments.

StepNames == {"a", "b"}
ProgressValues == {Num(0), Num(50), Num(100)}

\* The variables the tracker does not touch.
pipeline == <<analysis_results, request, response, fetched, background_tasks,
              pc, video_task, audio_task, frame, posted, disk>>

TrackerStart(t) ==
    /\ tasks' = start_task(tasks, t)
    /\ \E outcome \in WriteOutcomes : store' = save_data(store, tasks', outcome)
    /\ UNCHANGED pipeline

TrackerUpdate(t) ==
    /\ \E step_name \in StepNames, progress \in ProgressValues :
          tasks' = update_progress(tasks, t, step_name, progress)
    /\ \E outcome \in WriteOutcomes : store' = save_data(store, tasks', outcome)
    /\ UNCHANGED pipeline

\* complete_step saves only when it found the step.
TrackerCompleteStep(t) ==
    /\ \E step_name \in StepNames :
          /\ tasks' = complete_step(tasks, t, step_name)
          /\ IF t \in DOMAIN tasks /\ StepIndex(tasks[t].steps, step_name) # 0
             THEN \E outcome \in WriteOutcomes : store' = save_data(store, tasks', outcome)
             ELSE store' = store
    /\ UNCHANGED pipeline

\* On an unknown task complete_task raises ValueError and changes nothing.
TrackerCompleteTask(t) ==
    /\ t \in DOMAIN tasks
    /\ \E status \in {"completed", "error"} : tasks' = complete_task(tasks, t, status)
    /\ \E outcome \in WriteOutcomes : store' = save_data(store, tasks', outcome)
    /\ UNCHANGED pipeline

TrackerNext ==
    \E t \in TaskIds :
        \/ TrackerStart(t)
        \/ TrackerUpdate(t)
        \/ TrackerCompleteStep(t)
        \/ TrackerCompleteTask(t)

TrackerSpec == Init /\ [][TrackerNext]_vars

\* ------------------------------------------------- the service restarted
\* The process ends and is started again: the module-level analysis_results
\* is {} again, the TaskTracker is constructed anew and loads the data file,
\* and every coroutine and every scheduled background task of the old process
\* is gone.  What clients were told and what was posted stays as it was.
Restart ==
    /\ request # EmptyDict
    /\ tasks' = load_data(store)
    /\ analysis_results' = EmptyDict
    /\ background_tasks' = [t \in DOMAIN background_tasks |-> <<>>]
    /\ fetched' = EmptyDict
    /\ pc' = [t \in TaskIds |-> "not_started"]
    /\ video_task' = [t \in TaskIds |-> NoVideo]
    /\ audio_task' = [t \in TaskIds |-> NoAudio]
    /\ frame' = [t \in TaskIds |-> NoFrame]
    /\ UNCHANGED <<disk, request, response, posted, store>>

RestartNext ==
    \/ \E t \in TaskIds :
          \/ Submit(t)
          \/ TaskStep(t)
    \/ Restart

RestartSpec == Init /\ [][RestartNext]_vars

\* ------------------------------------------------ split_video on its own
\* split_video has opened a clip of total_frames frames at fps frames per
\* second and computes the number of parts.

\* Frame rates: unknown (0), 1, 25 and 30000/1001 frames per second.
FrameRates == {Num(0), Num(1), Num(25), Frac(30000, 1001)}

\* Clip lengths in seconds: whole minutes, and 24, 30 and 59 seconds more.
ClipSeconds == {60 * m + d : m \in 0..MaxClipMinutes, d \in {0, 24, 30, 59}}

\* The frame count of a clip of that many seconds at that nominal rate.
FrameCount(seconds, fps) == seconds * (IF fps[2] = 1 THEN fps[1] ELSE 30)

SplitInit ==
    /\ \E seconds \in ClipSeconds, fps \in FrameRates :
          video_task = [t \in TaskIds |->
              [pc |-> "opened", num_parts |-> 0, result |-> NoVideo.result,
               total_frames |-> FrameCount(seconds, fps), fps |-> fps]]
    /\ tasks = [t \in TaskIds |->
          UpdateAll(start_task(EmptyDict, t), t,
              <<<<"Starting parallel processing", Num(0)>>,
                <<"Starting video processing", Num(5)>>>>
              \o SplitUpdates(FALSE, 0))[t]]
    /\ store = StoreFile(tasks)
    /\ analysis_results = EmptyDict
    /\ request = [t \in TaskIds |->
          [mode |-> "file_url", app_name |-> "empowerverse", identifier |-> None,
           is_christian_content |-> "False"]]
    /\ response = [t \in TaskIds |-> Started(t)]
    /\ fetched = EmptyDict
    /\ background_tasks = [t \in TaskIds |-> <<UrlArgs(request[t])>>]
    /\ pc = [t \in TaskIds |-> "gather"]
    /\ audio_task = [t \in TaskIds |-> [NoAudio EXCEPT !.pc = "created"]]
    /\ frame = [t \in TaskIds |->
          [NoFrame EXCEPT !.app_name = "empowerverse"]]
    /\ posted = [t \in TaskIds |-> <<>>]
    /\ disk = EmptyDict

\* Lines 52-62: the properties are read and the number of parts computed.
SplitCount(t) ==
    /\ video_task[t].pc = "opened"
    /\ video_task' = [video_task EXCEPT
          ![t].pc = "counted",
          ![t].num_parts = NumParts(Minutes(video_task[t].total_frames, video_task[t].fps))]
    /\ tasks' = UpdateAll(tasks, t, <<<<"Calculating video parts", Num(8)>>>>)
    /\ UNCHANGED <<disk, analysis_results, request, response, fetched, background_tasks,
                   pc, audio_task, frame, posted>>
    /\ Saved

SplitNext == \E t \in TaskIds : SplitCount(t)

SplitSpec == SplitInit /\ [][SplitNext]_vars

\* ------------------------------------------------ split_video's files
\* split_video followed part by part: the temporary files it creates and
\* deletes, from its call to its return or its exception.

\* The names tempfile.NamedTemporaryFile gives the copy of the video and the
\* output file of part i.
temp_input_name == "tmp_input.mp4"
PartName(i) == "tmp_part_" \o ToString(i) \o ".mp4"

\* The finally clause (lines 115-127): the files named by temp_input_file and
\* temp_output_file are unlinked when they exist; an unlink that fails (the
\* files of failing) is only logged.
SplitFinally(v, failing) ==
    LET named == ({v.temp_input_file, v.temp_output_file} \ {None}) \cap v.files
    IN [v EXCEPT !.files = @ \ (named \ failing),
                 !.unlink_failed = @ \/ (named \cap failing # {})]

\* The except clause logs and raises again; then the finally clause.
SplitRaised(v, failing) == [SplitFinally(v, failing) EXCEPT !.pc = "raised"]

PartInit ==
    /\ \E seconds \in ClipSeconds, fps \in FrameRates :
          video_task = [t \in TaskIds |->
              [pc |-> "called", num_parts |-> 0, result |-> NoVideo.result,
               total_frames |-> FrameCount(seconds, fps), fps |-> fps,
               i |-> 0, files |-> {}, temp_input_file |-> None,
               temp_output_file |-> None, unlink_failed |-> FALSE,
               video_parts |-> 0]]
    /\ tasks = [t \in TaskIds |->
          UpdateAll(start_task(EmptyDict, t), t,
              <<<<"Starting parallel processing", Num(0)>>,
                <<"Starting video processing", Num(5)>>>>)[t]]
    /\ store = StoreFile(tasks)
    /\ analysis_results = EmptyDict
    /\ request = [t \in TaskIds |->
          [mode |-> "file_url", app_name |-> "empowerverse", identifier |-> None,
           is_christian_content |-> "False"]]
    /\ response = [t \in TaskIds |-> Started(t)]
    /\ fetched = EmptyDict
    /\ background_tasks = [t \in TaskIds |-> <<UrlArgs(request[t])>>]
    /\ pc = [t \in TaskIds |-> "gather"]
    /\ audio_task = [t \in TaskIds |-> [NoAudio EXCEPT !.pc = "created"]]
    /\ frame = [t \in TaskIds |->
          [NoFrame EXCEPT !.app_name = "empowerverse"]]
    /\ posted = [t \in TaskIds |-> <<>>]
    /\ disk = EmptyDict

\* Lines 39-62: the video is written to a temporary file, which is opened
\* and measured.  write_failed: temp_file.write raises after the file was
\* created and before temp_input_file is assigned.
PartSave(t) ==
    /\ video_task[t].pc = "called"
    /\ \E outcome \in {"opened", "write_failed", "not_opened"},
          failing \in SUBSET {temp_input_name} :
          LET v == video_task[t]
              created == [v EXCEPT !.files = @ \cup {temp_input_name}]
              written == [created EXCEPT !.temp_input_file = temp_input_name]
              saving == <<<<"Saving video to temporary file", Num(6)>>>>
              opening == saving \o <<<<"Opening video file", Num(7)>>>>
          IN IF outcome = "write_failed"
             THEN /\ tasks' = UpdateAll(tasks, t, saving)
                  /\ video_task' = [video_task EXCEPT ![t] = SplitRaised(created, failing)]
             ELSE IF outcome = "not_opened"
             THEN /\ tasks' = UpdateAll(tasks, t, opening)
                  /\ video_task' = [video_task EXCEPT ![t] = SplitRaised(written, failing)]
             ELSE /\ tasks' = UpdateAll(tasks, t,
                         opening \o <<<<"Calculating video parts", Num(8)>>>>)
                  /\ video_task' = [video_task EXCEPT ![t] =
                        [written EXCEPT !.pc = "splitting",
                            !.num_parts = NumParts(Minutes(v.total_frames, v.fps))]]
    /\ UNCHANGED <<disk, analysis_results, request, response, fetched, background_tasks,
                   pc, audio_task, frame, posted>>
    /\ Saved

\* Lines 71-105, one iteration of the loop, and lines 107-108 after the last
\* one.  writer_failed: an exception between the creation of the output file
\* and its unlink; the unlink of line 105 raises for a file of failing.
PartWritten(t) ==
    /\ video_task[t].pc = "splitting"
    /\ \E outcome \in {"appended", "writer_failed"},
          failing \in SUBSET {temp_input_name, PartName(video_task[t].i)} :
          LET v == video_task[t]
              n == v.num_parts
              created == [v EXCEPT !.files = @ \cup {PartName(v.i)},
                                   !.temp_output_file = PartName(v.i)]
              appended == [created EXCEPT !.video_parts = @ + 1]
              unlinked == [appended EXCEPT !.files = @ \ {PartName(v.i)}, !.i = @ + 1]
              part == <<<<"Processing video part " \o ToString(v.i + 1) \o "/" \o ToString(n),
                          Frac(8 * n + v.i * 7, n)>>>>
          IN IF outcome = "writer_failed"
             THEN /\ tasks' = UpdateAll(tasks, t, part)
                  /\ video_task' = [video_task EXCEPT ![t] = SplitRaised(created, failing)]
             ELSE IF PartName(v.i) \in failing
             THEN /\ tasks' = UpdateAll(tasks, t, part)
                  /\ video_task' = [video_task EXCEPT ![t] = SplitRaised(appended, failing)]
             ELSE IF unlinked.i = n
             THEN /\ tasks' = UpdateAll(tasks, t,
                         part \o <<<<"Video splitting completed", Num(15)>>>>)
                  /\ video_task' = [video_task EXCEPT ![t] =
                        [SplitFinally(unlinked, failing) EXCEPT !.pc = "returned"]]
             ELSE /\ tasks' = UpdateAll(tasks, t, part)
                  /\ video_task' = [video_task EXCEPT ![t] = unlinked]
    /\ UNCHANGED <<disk, analysis_results, request, response, fetched, background_tasks,
                   pc, audio_task, frame, posted>>
    /\ Saved

PartNext == \E t \in TaskIds : PartSave(t) \/ PartWritten(t)

PartSpec == PartInit /\ [][PartNext]_vars

\* ------------------------------------------ process_audio's chunk loop
\* process_audio followed chunk by chunk: the slices it takes of the audio
\* track and the temporary files it creates and deletes.

CHUNK_DURATION == 600000

\* Five minutes, in milliseconds.
AudioStep == 300000

\* len(video): the length of the audio track in milliseconds.
AudioLengths == {k * AudioStep + d : k \in 0..MaxAudioSteps, d \in {0, 1, AudioStep - 1}}

\* math.ceil(n / d) rounded down instead.
ceil_Floor(n, d) == n \div d

\* math.ceil(n / d) for an integer n and a positive integer d
ceil(n, d) == 0 - ((0 - n) \div d)

\* The name tempfile.NamedTemporaryFile gives the file of iteration i.
ChunkName(i) == "chunk" \o ToString(i) \o ".wav"

\* The elements of a list.
Elements(list) == {list[k] : k \in DOMAIN list}

\* process_audio's locals and the temporary chunk files on disk.  chunks
\* lists the slices video[start_time:end_time] taken so far.
\* media holds the other files of the call that exist: temp_video_file and
\* audio_filename.
NoChunks == [pc |-> "created", audio_length |-> 0, num_chunks |-> 0, i |-> 0,
             chunks |-> <<>>, chunk_files |-> <<>>, files |-> {}, media |-> {},
             unlink_failed |-> FALSE, transcriptions |-> <<>>,
             result |-> NoAudio.result]

\* The name tempfile.NamedTemporaryFile gives the copy of the upload.
temp_video_file == "temp_video.mp4"

\* `if path and os.path.exists(path): try: os.unlink(path) except: log`, for
\* a path (or None) and the files whose unlink fails.
Unlink(a, path, failing) ==
    IF path = None \/ path \notin a.media THEN a
    ELSE IF path \in failing THEN [a EXCEPT !.unlink_failed = TRUE]
    ELSE [a EXCEPT !.media = @ \ {path}]

\* process_audio's outer finally clause (lines 148-155).
OuterFinally(a, failing) == Unlink(a, temp_video_file, failing)

\* The finally clause of analyze_video_task (lines 196-213) for a task whose
\* tracker status is status and whose audio_result is a.result.
AudioCleanUp(a, status, failing) ==
    IF status \in {"error", "completed"} /\ Len(a.result) > 1
    THEN Unlink(a, a.result[2], failing)
    ELSE a

\* The inner finally clause: every file of chunk_files that exists is
\* unlinked; an unlink that fails (the files of failing) is only logged.
CleanUp(a, failing) ==
    [a EXCEPT !.files = @ \ (Elements(a.chunk_files) \ failing),
              !.unlink_failed = @ \/ (Elements(a.chunk_files) \cap failing \cap a.files # {})]

\* The except clause after the inner finally clause.
ChunkFailed(a, failing) ==
    [OuterFinally(CleanUp(a, failing), failing) EXCEPT
        !.pc = AudioFailure, !.result = AudioErrorResult]

\* The return statement after the inner finally clause.
ChunkReturned(a, failing) ==
    [OuterFinally(CleanUp(a, failing), failing) EXCEPT
        !.pc = "done", !.result = AudioOkResult(a.transcriptions)]

ExportOutcomes == {"exported", "export_failed", "oversize"}

\* The loop body for i = a.i as far as the transcription await: the slice,
\* the temporary file, the export into it, the size check.
Iteration(a, outcome, failing) ==
    LET start_time == a.i * CHUNK_DURATION
        end_time == Min((a.i + 1) * CHUNK_DURATION, a.audio_length)
        temp_chunk == ChunkName(a.i)
        created == [a EXCEPT !.chunks = Append(@, <<start_time, end_time>>),
                             !.files = @ \cup {temp_chunk}]
        exported == [created EXCEPT !.chunk_files = Append(@, temp_chunk)]
    IN IF outcome = "export_failed" THEN ChunkFailed(created, failing)
       ELSE IF outcome = "oversize" THEN ChunkFailed(exported, failing)
       ELSE [exported EXCEPT !.pc = "transcribing"]

\* The progress reports that follow an iteration.
IterationUpdates(outcome) ==
    IF outcome = "exported" THEN <<>> ELSE AudioErrorUpdate

ChunkInit ==
    /\ \E audio_length \in AudioLengths :
          audio_task = [t \in TaskIds |->
              [NoChunks EXCEPT !.audio_length = audio_length]]
    /\ video_task = [t \in TaskIds |->
          [pc |-> "done", num_parts |-> 0, result |-> VideoError]]
    /\ tasks = [t \in TaskIds |->
          UpdateAll(start_task(EmptyDict, t), t,
              <<<<"Starting parallel processing", Num(0)>>,
                <<"Starting video processing", Num(5)>>>>
              \o SplitUpdates(FALSE, 0))[t]]
    /\ store = StoreFile(tasks)
    /\ analysis_results = EmptyDict
    /\ request = [t \in TaskIds |->
          [mode |-> "file_url", app_name |-> "empowerverse", identifier |-> None,
           is_christian_content |-> "False"]]
    /\ response = [t \in TaskIds |-> Started(t)]
    /\ fetched = EmptyDict
    /\ background_tasks = [t \in TaskIds |-> <<UrlArgs(request[t])>>]
    /\ pc = [t \in TaskIds |-> "gather"]
    /\ frame = [t \in TaskIds |->
          [NoFrame EXCEPT !.app_name = "empowerverse"]]
    /\ posted = [t \in TaskIds |-> <<>>]
    /\ disk = EmptyDict

\* process_audio from its start to the first transcription await.
ChunkStart(t) ==
    /\ audio_task[t].pc = "created"
    /\ \E loadable \in BOOLEAN, outcome \in ExportOutcomes,
          failing \in SUBSET {ChunkName(audio_task[t].i), temp_video_file} :
          LET a0 == [audio_task[t] EXCEPT !.media = {temp_video_file}]
              a == [a0 EXCEPT !.media = @ \cup {audio_filename},
                              !.num_chunks = ceil(a0.audio_length, CHUNK_DURATION)]
              saved == <<<<"Video file saved", Num(10)>>>>
              loaded == saved \o
                  <<<<"Video loaded for audio extraction", Num(15)>>,
                    <<"Audio extracted and saved", Num(25)>>,
                    <<"Starting audio transcription", Num(30)>>>>
          IN IF ~loadable
             THEN /\ tasks' = UpdateAll(tasks, t, saved \o AudioErrorUpdate)
                  /\ audio_task' = [audio_task EXCEPT ![t] =
                        [OuterFinally(a0, failing) EXCEPT
                            !.pc = AudioFailure, !.result = AudioErrorResult]]
             ELSE IF a.num_chunks = 0
             THEN /\ tasks' = UpdateAll(tasks, t, loaded \o AudioDoneUpdates)
                  /\ audio_task' = [audio_task EXCEPT ![t] = ChunkReturned(a, failing)]
             ELSE /\ tasks' = UpdateAll(tasks, t, loaded \o IterationUpdates(outcome))
                  /\ audio_task' = [audio_task EXCEPT ![t] = Iteration(a, outcome, failing)]
    /\ UNCHANGED <<disk, analysis_results, request, response, fetched, background_tasks,
                   pc, video_task, frame, posted>>
    /\ Saved

\* The transcription of chunk i has returned: it is appended and reported,
\* then the loop goes on to the next iteration or ends.
ChunkTranscribed(t) ==
    /\ audio_task[t].pc = "transcribing"
    /\ \E text \in Transcriptions(audio_task[t].i + 1), outcome \in ExportOutcomes,
          failing \in SUBSET ({ChunkName(k) : k \in 0..(audio_task[t].i + 1)}
                               \cup {temp_video_file}) :
          LET a0 == audio_task[t]
              n == a0.num_chunks
              a == [a0 EXCEPT !.transcriptions = Append(@, text), !.i = @ + 1]
              chunk == <<<<"Transcribed chunk " \o ToString(a.i) \o "/" \o ToString(n),
                           Frac(30 * n + a.i * 5, n)>>>>
          IN IF a.i = n
             THEN /\ tasks' = UpdateAll(tasks, t, chunk \o AudioDoneUpdates)
                  /\ audio_task' = [audio_task EXCEPT ![t] = ChunkReturned(a, failing)]
             ELSE /\ tasks' = UpdateAll(tasks, t, chunk \o IterationUpdates(outcome))
                  /\ audio_task' = [audio_task EXCEPT ![t] = Iteration(a, outcome, failing)]
    /\ UNCHANGED <<disk, analysis_results, request, response, fetched, background_tasks,
                   pc, video_task, frame, posted>>
    /\ Saved

\* process_audio has returned and process_video had returned its error
\* triple: analyze_video_task goes on from the gather to its return, its
\* finally clause included.
ChunkJoin(t) ==
    /\ Joined(t)
    /\ \E failing \in SUBSET {audio_filename} :
          audio_task' = [audio_task EXCEPT ![t] =
              AudioCleanUp(audio_task[t], tasks'[t].status, failing)]
    /\ UNCHANGED disk

ChunkNext == \E t \in TaskIds : ChunkStart(t) \/ ChunkTranscribed(t) \/ ChunkJoin(t)

ChunkSpec == ChunkInit /\ [][ChunkNext]_vars

\* --------------------------------------------- two tasks and their files
\* Two analyze_video_task runs on one event loop, each with a one-chunk audio
\* track and a process_video that returned its error triple, followed by the
\* files their process_audio calls create and delete on a disk whose unlinks
\* succeed.

Runs == {"t1", "t2"}

\* The names tempfile.NamedTemporaryFile can return: it opens the file
\* exclusively, so it returns a name no existing file has.
TempNames == {"tmp1", "tmp2", "tmp3", "tmp4"}

\* audio_filename: os.path.join(output_folder,
\* f"extracted_audio_{timestamp}.wav"), timestamp to the second.
AudioPath(now) == "extracted_audio_" \o ToString(now) \o ".wav"

NoCall == [pc |-> "created", timestamp |-> 0, temp_video_file |-> None,
           audio_filename |-> None, chunk_file |-> None,
           result |-> NoAudio.result]

\* os.unlink of every path of paths that exists.
Unlinked(d, paths) == [path \in (DOMAIN d) \ paths |-> d[path]]

LoadedUpdates ==
    <<<<"Video file saved", Num(10)>>,
      <<"Video loaded for audio extraction", Num(15)>>,
      <<"Audio extracted and saved", Num(25)>>,
      <<"Starting audio transcription", Num(30)>>>>

ShareInit ==
    /\ audio_task = [t \in Runs |-> NoCall]
    /\ video_task = [t \in Runs |->
          [pc |-> "done", num_parts |-> 0, result |-> VideoError]]
    /\ tasks = [t \in Runs |->
          UpdateAll(start_task(EmptyDict, t), t,
              <<<<"Starting parallel processing", Num(0)>>,
                <<"Starting video processing", Num(5)>>>>
              \o SplitUpdates(FALSE, 0))[t]]
    /\ store = StoreFile(tasks)
    /\ disk = EmptyDict
    /\ analysis_results = EmptyDict
    /\ request = [t \in Runs |->
          [mode |-> "file_url", app_name |-> "empowerverse", identifier |-> None,
           is_christian_content |-> "False"]]
    /\ response = [t \in Runs |-> Started(t)]
    /\ fetched = EmptyDict
    /\ background_tasks = [t \in Runs |-> <<UrlArgs(request[t])>>]
    /\ pc = [t \in Runs |-> "gather"]
    /\ frame = [t \in Runs |-> [NoFrame EXCEPT !.app_name = "empowerverse"]]
    /\ posted = [t \in Runs |-> <<>>]

\* process_audio from its start to the transcription await of its only
\* chunk, or to its return when the chunk is over the size cap.  now is the
\* second datetime.now() gives: not before a second another call has read.
ShareStart(t) ==
    /\ audio_task[t].pc = "created"
    /\ \E now \in 0..MaxSeconds, temp \in TempNames, chunk \in TempNames,
          oversize \in BOOLEAN :
          /\ \A u \in Runs : audio_task[u].pc # "created" => now >= audio_task[u].timestamp
          /\ temp \notin DOMAIN disk
          /\ chunk \notin (DOMAIN disk) \cup {temp}
          /\ LET written == DictSet(DictSet(DictSet(disk, temp, t), AudioPath(now), t),
                                    chunk, t)
                 a == [audio_task[t] EXCEPT !.timestamp = now,
                                            !.audio_filename = AudioPath(now)]
             IN IF oversize
                THEN /\ disk' = Unlinked(written, {chunk, temp})
                     /\ audio_task' = [audio_task EXCEPT ![t] =
                           [a EXCEPT !.pc = "done", !.result = AudioErrorResult]]
                     /\ tasks' = UpdateAll(tasks, t, LoadedUpdates \o AudioErrorUpdate)
                ELSE /\ disk' = written
                     /\ audio_task' = [audio_task EXCEPT ![t] =
                           [a EXCEPT !.pc = "transcribing",
                                     !.temp_video_file = temp,
                                     !.chunk_file = chunk]]
                     /\ tasks' = UpdateAll(tasks, t, LoadedUpdates)
    /\ UNCHANGED <<analysis_results, request, response, fetched, background_tasks,
                   pc, video_task, frame, posted>>
    /\ Saved

\* The transcription has returned: the chunk file and the copy of the upload
\* are unlinked if they exist, and process_audio returns.
ShareTranscribed(t) ==
    /\ audio_task[t].pc = "transcribing"
    /\ \E text \in Transcriptions(1) :
          LET a == audio_task[t]
          IN /\ disk' = Unlinked(disk, {a.chunk_file, a.temp_video_file})
             /\ audio_task' = [audio_task EXCEPT ![t] =
                   [a EXCEPT !.pc = "done", !.temp_video_file = None,
                             !.chunk_file = None,
                             !.result = <<PyList(<<PyDict([text |-> text])>>),
                                          a.audio_filename>>]]
             /\ tasks' = UpdateAll(tasks, t,
                   <<<<"Transcribed chunk 1/1", Num(35)>>>> \o AudioDoneUpdates)
    /\ UNCHANGED <<analysis_results, request, response, fetched, background_tasks,
                   pc, video_task, frame, posted>>
    /\ Saved

\* analyze_video_task from the gather to its return; its finally clause
\* unlinks audio_result[1] if that file exists.
ShareJoin(t) ==
    /\ Joined(t)
    /\ LET audio_result == audio_task[t].result
       IN disk' = IF tasks'[t].status \in {"error", "completed"}
                     /\ audio_result[2] # None
                  THEN Unlinked(disk, {audio_result[2]})
                  ELSE disk
    /\ UNCHANGED audio_task

ShareNext == \E t \in Runs : ShareStart(t) \/ ShareTranscribed(t) \/ ShareJoin(t)

SharingSpec == ShareInit /\ [][ShareNext]_vars

\* ---------------------------------------------- extract_frames on its own
\* One extract_frames call on a segment whose container reports
\* total_frames frames: the positions it seeks and the frames it reads.

\* interval without its lower limit.
interval_NoFloor(total_frames) == total_frames \div 16

\* interval = max(1, total_frames // 16)
interval(total_frames) == Max(1, total_frames \div 16)

\* frame_pos = min(i * interval, total_frames - 1)
frame_pos(i, total_frames) == Min(i * interval(total_frames), total_frames - 1)

\* The positions of range(16), in the order they are sought.
FramePositions(total_frames) == [k \in 1..16 |-> frame_pos(k - 1, total_frames)]

\* frames: the reads that returned a frame, each with its sample index i and
\* position, in the order of the loop.  A read succeeds before the first
\* frame the decoder cannot deliver, except at the damaged position corrupt.
FramesRead(positions, decodable, corrupt) ==
    SelectSeq([k \in 1..16 |-> [i |-> k - 1, pos |-> positions[k]]],
              LAMBDA r : r.pos >= 0 /\ r.pos < decodable /\ r.pos # corrupt)

\* Lines 173-178: `for i, frame in enumerate(frames)` pastes the i-th element
\* of frames at column i % 4, row i // 4.  The image as cell -> sample index
\* of the frame pasted there; a cell not in the domain is blank.
Paste(frames) ==
    [cell \in {<<(k - 1) % 4, (k - 1) \div 4>> : k \in DOMAIN frames} |->
        frames[cell[2] * 4 + cell[1] + 1].i]

FrameInit ==
    /\ \E total_frames \in 0..MaxSegmentFrames :
          video_task = [t \in TaskIds |->
              [pc |-> "extracting", num_parts |-> 1, result |-> NoVideo.result,
               total_frames |-> total_frames, requested |-> <<>>,
               frames |-> <<>>, cells |-> EmptyDict, grid |-> None,
               raised |-> FALSE]]
    /\ audio_task = [t \in TaskIds |-> AudioFailed]
    /\ tasks = [t \in TaskIds |->
          UpdateAll(start_task(EmptyDict, t), t,
              <<<<"Starting parallel processing", Num(0)>>,
                <<"Starting video processing", Num(5)>>>>
              \o SplitUpdates(TRUE, 1)
              \o <<<<"Video split completed", Num(15)>>,
                    <<"Video file saved", Num(10)>>>>
              \o AudioErrorUpdate)[t]]
    /\ store = StoreFile(tasks)
    /\ analysis_results = EmptyDict
    /\ request = [t \in TaskIds |->
          [mode |-> "file_url", app_name |-> "empowerverse", identifier |-> None,
           is_christian_content |-> "False"]]
    /\ response = [t \in TaskIds |-> Started(t)]
    /\ fetched = EmptyDict
    /\ background_tasks = [t \in TaskIds |-> <<UrlArgs(request[t])>>]
    /\ pc = [t \in TaskIds |-> "gather"]
    /\ frame = [t \in TaskIds |->
          [NoFrame EXCEPT !.app_name = "empowerverse"]]
    /\ posted = [t \in TaskIds |-> <<>>]
    /\ disk = EmptyDict

\* extract_frames from its call to its return: it has no await that yields.
\* decodable: the number of leading frames of the segment that can be read;
\* corrupt: the position of one damaged frame, or -1.  grid is the value
\* returned; the ValueError of an empty segment is caught by the function's
\* own except clause, which returns None, so raised stays FALSE.
ExtractFrames(t) ==
    /\ video_task[t].pc = "extracting"
    /\ \E decodable \in {0, video_task[t].total_frames \div 2, video_task[t].total_frames},
          corrupt \in (0 - 1)..(video_task[t].total_frames - 1) :
          LET v == video_task[t]
              positions == FramePositions(v.total_frames)
              frames == FramesRead(positions, decodable, corrupt)
          IN video_task' = [video_task EXCEPT ![t] =
                IF v.total_frames = 0
                THEN [v EXCEPT !.pc = "extracted", !.grid = None]
                ELSE [v EXCEPT !.pc = "extracted",
                               !.requested = positions,
                               !.frames = frames,
                               !.cells = Paste(frames),
                               !.grid = IF frames = <<>> THEN None ELSE "grid"]]
    /\ UNCHANGED <<disk, tasks, store, analysis_results, request, response, fetched,
                   background_tasks, pc, audio_task, frame, posted>>

FrameNext == \E t \in TaskIds : ExtractFrames(t)

FrameSpec == FrameInit /\ [][FrameNext]_vars

\* ------------------------------------------- the result assembly on its own
\* A task whose description has been generated and whose metadata call is
\* outstanding; the metadata model may answer with any record of
\* SampledMetadata.

\* The update_progress calls of a run with one part, no audio chunk and one
\* grid, up to the metadata call.
PipelineUpdates ==
    <<<<"Starting parallel processing", Num(0)>>, <<"Starting video processing", Num(5)>>>>
    \o SplitUpdates(TRUE, 1)
    \o <<<<"Video split completed", Num(15)>>, <<"Video file saved", Num(10)>>,
         <<"Video loaded for audio extraction", Num(15)>>,
         <<"Audio extracted and saved", Num(25)>>,
         <<"Starting audio transcription", Num(30)>>>>
    \o AudioDoneUpdates
    \o <<<<"Frame extraction completed", Num(25)>>,
         <<"Starting content moderation", Num(30)>>,
         <<"Content moderation completed", Num(35)>>,
         <<"Parallel processing completed", Num(20)>>,
         <<"Video processing results unpacked", Num(30)>>,
         <<"Audio transcription extracted", Num(40)>>>>
    \o DescriptionStart(1)
    \o <<<<"Generating final description", Num(70)>>,
         <<"Description generation completed", Num(75)>>,
         <<"Description generated", Num(60)>>,
         <<"Extracting metadata", Num(60)>>>>

SampledFields == {"keywords", "topics", "genre"}

SampledValue(k) == IF k = "genre" THEN PyStr(<<"a">>) ELSE <<k>>

PersonValues == {PyStr(chars) : chars \in Texts} \cup {PyInt(2), PyFloat(Frac(5, 2))}

SampledMetadata ==
    {[k \in K |-> SampledValue(k)] : K \in SUBSET SampledFields}
    \cup {Merge([k \in K |-> SampledValue(k)], [no_of_person_in_video |-> v]) :
             K \in SUBSET SampledFields, v \in PersonValues}

AggregatorInit ==
    /\ \E req \in {r \in Requests : r.mode = "file_url" /\ r.identifier = None
                                     /\ r.app_name = "empowerverse"} :
          /\ request = [t \in TaskIds |-> req]
          /\ background_tasks = [t \in TaskIds |-> <<UrlArgs(req)>>]
          /\ frame = [t \in TaskIds |->
                [NoFrame EXCEPT !.app_name = req.app_name,
                                !.is_christian_content = req.is_christian_content,
                                !.is_safe = TRUE,
                                !.content_warnings = <<"Content Moderation Timestamp">>,
                                !.base64_grids = <<1>>,
                                !.description = "description",
                                !.generate_description_calls = 1,
                                !.extract_video_metadata_calls = 1]]
    /\ tasks = [t \in TaskIds |-> UpdateAll(start_task(EmptyDict, t), t, PipelineUpdates)[t]]
    /\ analysis_results = EmptyDict
    /\ response = [t \in TaskIds |-> Started(t)]
    /\ fetched = EmptyDict
    /\ pc = [t \in TaskIds |-> "metadata"]
    /\ video_task = [t \in TaskIds |->
          [NoVideo EXCEPT !.pc = "done",
                          !.result = [is_safe |-> TRUE,
                                      warnings |-> <<"Content Moderation Timestamp">>,
                                      valid_grids |-> <<1>>]]]
    /\ audio_task = [t \in TaskIds |-> AudioReturned(AudioOkResult(<<>>))]
    /\ posted = [t \in TaskIds |-> <<>>]
    /\ disk = EmptyDict
    /\ store = StoreFile(tasks)

MetadataSampled(t) ==
    /\ pc[t] = "metadata"
    /\ \E metadata \in SampledMetadata : MetadataReturned(t, metadata)
    /\ UNCHANGED <<disk, request, response, fetched, background_tasks, video_task,
                   audio_task>>

AggregatorNext ==
    \E t \in TaskIds :
        \/ MetadataSampled(t)
        \/ ChristianAnalyzed(t)

AggregatorSpec == AggregatorInit /\ [][AggregatorNext]_vars

\* ------------------------------------------ two tasks and the event loop
\* Two analyze_video_task runs on the one event loop, each waiting for its
\* metadata call (which runs in the executor), with an identifier to call
\* back.  requests.post is a synchronous call made on the loop's thread:
\* from the call until it returns, pc is "posting" and the loop runs nothing.

LoopFree == \A u \in Runs : pc[u] # "posting"

BlockInit ==
    /\ request = [t \in Runs |->
          [mode |-> "file_url", app_name |-> "empowerverse", identifier |-> "id1",
           is_christian_content |-> "False"]]
    /\ background_tasks = [t \in Runs |-> <<UrlArgs(request[t])>>]
    /\ frame = [t \in Runs |->
          [NoFrame EXCEPT !.app_name = "empowerverse",
                          !.identifier = "id1",
                          !.is_safe = TRUE,
                          !.content_warnings = <<"Content Moderation Timestamp">>,
                          !.base64_grids = <<1>>,
                          !.description = "description",
                          !.generate_description_calls = 1,
                          !.extract_video_metadata_calls = 1]]
    /\ tasks = [t \in Runs |-> UpdateAll(start_task(EmptyDict, t), t, PipelineUpdates)[t]]
    /\ analysis_results = EmptyDict
    /\ response = [t \in Runs |-> Started(t)]
    /\ fetched = EmptyDict
    /\ pc = [t \in Runs |-> "metadata"]
    /\ video_task = [t \in Runs |->
          [NoVideo EXCEPT !.pc = "done",
                          !.result = [is_safe |-> TRUE,
                                      warnings |-> <<"Content Moderation Timestamp">>,
                                      valid_grids |-> <<1>>]]]
    /\ audio_task = [t \in Runs |-> AudioReturned(AudioOkResult(<<>>))]
    /\ posted = [t \in Runs |-> <<>>]
    /\ disk = EmptyDict
    /\ store = StoreFile(tasks)

\* Lines 88-181: the metadata call has returned; the result is assembled and
\* recorded and requests.post is called.
CallbackSent(t) ==
    /\ pc[t] = "metadata"
    /\ LoopFree
    /\ \E metadata \in MetadataRecords \cup {EmptyDict} :
          /\ frame' = [frame EXCEPT ![t].metadata = metadata]
          /\ analysis_results' = DictSet(analysis_results, t,
                                         BuildResult(frame[t], metadata))
    /\ tasks' = UpdateAll(tasks, t,
          <<<<"Metadata extracted", Num(80)>>, <<"Results compiled", Num(90)>>,
            <<"Sending callback", Num(90)>>>>)
    /\ pc' = [pc EXCEPT ![t] = "posting"]
    /\ UNCHANGED <<disk, request, response, fetched, background_tasks, video_task,
                   audio_task, posted>>
    /\ Saved

\* Lines 181-195: requests.post has returned or raised; the task is completed,
\* or ended by the except clause.
CallbackAnswered(t) ==
    /\ pc[t] = "posting"
    /\ \E net \in PostOutcomes :
          LET f == frame[t]
              api_url == ApiUrl(f.app_name)
              o == Post(api_url, net)
          IN /\ posted' = [posted EXCEPT ![t] = Append(@,
                   [api_url |-> api_url, identifier |-> f.identifier,
                    result |-> BuildResult(f, f.metadata), outcome |-> o,
                    status |-> tasks[t].status,
                    current_progress |-> tasks[t].current_progress])]
             /\ IF o.raised
                THEN /\ tasks' = Except(tasks, t)
                     /\ analysis_results' = DictSet(analysis_results, t,
                           ErrorResult("request error"))
                ELSE /\ tasks' = complete_task(
                           UpdateAll(tasks, t, <<<<"Task completed", Num(100)>>>>),
                           t, "completed")
                     /\ analysis_results' = analysis_results
    /\ pc' = [pc EXCEPT ![t] = "returned"]
    /\ UNCHANGED <<disk, request, response, fetched, background_tasks, video_task,
                   audio_task, frame>>
    /\ Saved

BlockNext == \E t \in Runs : CallbackSent(t) \/ CallbackAnswered(t)

BlockingSpec == BlockInit /\ [][BlockNext]_vars

\* ------------------------------------------- two callers of the tracker
\* Two tasks on the one event loop thread call the tracker in any order.  A
\* call runs from its first statement to its return without an await, so a
\* call is one step.  frame[t] holds the arguments of t's last call and
\* pc[t] = "returned" marks the task whose call returned last.

ReportedValues == {Num(10), Frac(65, 2)}

LastCall(t) == [u \in Runs |-> IF u = t THEN "returned" ELSE "idle"]

TableInit ==
    /\ tasks = EmptyDict
    /\ store = StoreAbsent
    /\ analysis_results = EmptyDict
    /\ request = EmptyDict
    /\ response = EmptyDict
    /\ fetched = EmptyDict
    /\ background_tasks = EmptyDict
    /\ pc = [t \in Runs |-> "idle"]
    /\ video_task = [t \in Runs |-> NoVideo]
    /\ audio_task = [t \in Runs |-> NoAudio]
    /\ frame = [t \in Runs |-> [method |-> None, step_name |-> None, progress |-> Num(0)]]
    /\ posted = [t \in Runs |-> <<>>]
    /\ disk = EmptyDict

TableUpdate(t) ==
    /\ \E step_name \in StepNames, progress \in ReportedValues :
          /\ tasks' = update_progress(tasks, t, step_name, progress)
          /\ frame' = [frame EXCEPT ![t] =
                [method |-> "update_progress", step_name |-> step_name,
                 progress |-> progress]]
    /\ pc' = LastCall(t)
    /\ Saved
    /\ UNCHANGED <<analysis_results, request, response, fetched, background_tasks,
                   video_task, audio_task, posted, disk>>

TableComplete(t) ==
    /\ t \in DOMAIN tasks
    /\ tasks' = complete_task(tasks, t, "completed")
    /\ frame' = [frame EXCEPT ![t] =
          [method |-> "complete_task", step_name |-> None, progress |-> Num(100)]]
    /\ pc' = LastCall(t)
    /\ Saved
    /\ UNCHANGED <<analysis_results, request, response, fetched, background_tasks,
                   video_task, audio_task, posted, disk>>

TableNext == \E t \in Runs : TableUpdate(t) \/ TableComplete(t)

TableSpec == TableInit /\ [][TableNext]_vars

\* ------------------------------------------ what complete_task returns
\* The tracker's methods called in any order, and the dict complete_task
\* returned kept by its caller in response[t].  dict.copy() copies the keys
\* of the record, not the dicts under "steps" and "timing": `own` holds the
\* copied scalar values, and the nested dicts are those of the table
\* (`shared`) until start_task puts a new record with new dicts in the
\* table, from when on the returned record alone refers to the old ones
\* (`steps`).  `returned` is the record's value when the call returned.

NotReturned == [state |-> "none"]

Returned(rec) ==
    [state |-> "returned", own |-> [status |-> rec.status, ended |-> rec.ended,
                                    current_progress |-> rec.current_progress],
     shared |-> TRUE, steps |-> rec.steps, returned |-> rec]

\* The record as its holder reads it now.
Read(T, task_id, r) ==
    [status |-> r.own.status, ended |-> r.own.ended,
     current_progress |-> r.own.current_progress,
     steps |-> IF r.shared THEN T[task_id].steps ELSE r.steps]

\* The nested dicts of the table's record are mutated in place.
Mutated(r, rec) == IF r.state = "returned" /\ r.shared THEN [r EXCEPT !.steps = rec.steps] ELSE r

\* start_task replaces the table's record.
Replaced(r) == IF r.state = "returned" THEN [r EXCEPT !.shared = FALSE] ELSE r

SnapshotInit ==
    /\ tasks = EmptyDict
    /\ store = StoreAbsent
    /\ analysis_results = EmptyDict
    /\ request = EmptyDict
    /\ response = [t \in TaskIds |-> NotReturned]
    /\ fetched = EmptyDict
    /\ background_tasks = EmptyDict
    /\ pc = [t \in TaskIds |-> "not_started"]
    /\ video_task = [t \in TaskIds |-> NoVideo]
    /\ audio_task = [t \in TaskIds |-> NoAudio]
    /\ frame = [t \in TaskIds |-> NoFrame]
    /\ posted = [t \in TaskIds |-> <<>>]
    /\ disk = EmptyDict

SnapshotStart(t) ==
    /\ tasks' = start_task(tasks, t)
    /\ response' = [response EXCEPT ![t] = Replaced(@)]
    /\ Saved
    /\ UNCHANGED <<analysis_results, request, fetched, background_tasks, pc,
                   video_task, audio_task, frame, posted, disk>>

SnapshotUpdate(t) ==
    /\ \E step_name \in StepNames, progress \in ReportedValues :
          tasks' = update_progress(tasks, t, step_name, progress)
    /\ response' = [response EXCEPT ![t] =
          IF t \in DOMAIN tasks THEN Mutated(@, tasks'[t]) ELSE Replaced(@)]
    /\ Saved
    /\ UNCHANGED <<analysis_results, request, fetched, background_tasks, pc,
                   video_task, audio_task, frame, posted, disk>>

SnapshotCompleteStep(t) ==
    /\ \E step_name \in StepNames :
          /\ t \in DOMAIN tasks /\ StepIndex(tasks[t].steps, step_name) # 0
          /\ tasks' = complete_step(tasks, t, step_name)
    /\ response' = [response EXCEPT ![t] = Mutated(@, tasks'[t])]
    /\ Saved
    /\ UNCHANGED <<analysis_results, request, fetched, background_tasks, pc,
                   video_task, audio_task, frame, posted, disk>>

\* The caller keeps the dict of its first complete_task call.
SnapshotCompleteTask(t) ==
    /\ t \in DOMAIN tasks
    /\ \E status \in {"completed", "error"} : tasks' = complete_task(tasks, t, status)
    /\ response' = [response EXCEPT ![t] =
          IF @.state = "none" THEN Returned(tasks'[t]) ELSE Mutated(@, tasks'[t])]
    /\ Saved
    /\ UNCHANGED <<analysis_results, request, fetched, background_tasks, pc,
                   video_task, audio_task, frame, posted, disk>>

SnapshotNext ==
    \E t \in TaskIds :
        \/ SnapshotStart(t)
        \/ SnapshotUpdate(t)
        \/ SnapshotCompleteStep(t)
        \/ SnapshotCompleteTask(t)

SnapshotSpec == SnapshotInit /\ [][SnapshotNext]_vars

\* ------------------------------------------------------------- share_url
\* The handler of POST /share_url and the analyze_video call it queues.

\* Configured values of app.core.config.settings (any distinct strings).
EMPOWERVERSE_API_KEY == "ev-key"
WEMOTIONS_API_KEY == "wm-key"

FlicTokens == {EMPOWERVERSE_API_KEY, WEMOTIONS_API_KEY, "other"}

\* JSON bodies: each of the three keys present or not, url and identifier
\* also empty.
Bodies ==
    {Restrict([url |-> url, identifier |-> identifier, is_christian_content |-> "True"], keys) :
        url \in {"", "https://cdn.example/v.mp4"}, identifier \in {"", "id1"},
        keys \in SUBSET {"url", "identifier", "is_christian_content"}}

InvalidToken == [status |-> "error", message |-> "Invalid Flic_Token"]
FieldsRequired == [status |-> "error", message |-> "url and identifier are required fields"]
InQueue == [status |-> "success",
            message |-> "URL processed successfully, video processing in queue..."]

\* `identifier = data.get('identifier'),` ends in a comma: identifier is the
\* one-element tuple of the value, and `not identifier` tests the tuple.
share_url(flic_token, data) ==
    LET url == Get(data, "url", None)
        identifier == <<Get(data, "identifier", None)>>
        is_christian_content == Get(data, "is_christian_content", "False")
        app_name == IF flic_token = EMPOWERVERSE_API_KEY THEN "empowerverse"
                    ELSE IF flic_token = WEMOTIONS_API_KEY THEN "wemotions"
                    ELSE None
    IN IF app_name = None
       THEN [response |-> InvalidToken, added |-> <<>>]
       ELSE IF ~Truthy(url) \/ ~(Len(identifier) > 0)
       THEN [response |-> FieldsRequired, added |-> <<>>]
       ELSE [response |-> InQueue,
             added |-> <<[mode |-> "file_url", app_name |-> app_name, file_url |-> url,
                          identifier |-> identifier,
                          is_christian_content |-> is_christian_content]>>]

QueueInit ==
    /\ tasks = EmptyDict
    /\ store = StoreAbsent
    /\ analysis_results = EmptyDict
    /\ request = EmptyDict
    /\ response = EmptyDict
    /\ fetched = EmptyDict
    /\ background_tasks = EmptyDict
    /\ pc = [t \in TaskIds |-> "not_started"]
    /\ video_task = [t \in TaskIds |-> NoVideo]
    /\ audio_task = [t \in TaskIds |-> NoAudio]
    /\ frame = [t \in TaskIds |-> NoFrame]
    /\ posted = [t \in TaskIds |-> <<>>]
    /\ disk = EmptyDict

\* One POST /share_url.
ShareUrl(t) ==
    /\ t \notin DOMAIN request
    /\ \E flic_token \in FlicTokens, data \in Bodies :
          LET h == share_url(flic_token, data)
          IN /\ request' = DictSet(request, t, [flic_token |-> flic_token, data |-> data])
             /\ response' = DictSet(response, t, h.response)
             /\ background_tasks' = DictSet(background_tasks, t, h.added)
    /\ UNCHANGED <<disk, tasks, analysis_results, fetched, pc, video_task, audio_task,
                   frame, posted, store>>

\* The queued analyze_video call runs after the response was sent: it
\* fetches the URL and queues analyze_video_task.
QueuedAnalyzeVideo(t) ==
    /\ t \in DOMAIN background_tasks
    /\ pc[t] = "not_started"
    /\ background_tasks[t] # <<>>
    /\ \E outcomes \in [1..MAX_RETRIES -> FetchOutcomes] :
          LET h == analyze_video(t, background_tasks[t][1], outcomes)
          IN /\ fetched' = DictSet(fetched, t, h.fetched)
             /\ background_tasks' = [background_tasks EXCEPT ![t] = h.added]
    /\ pc' = [pc EXCEPT ![t] = "analyze_video"]
    /\ UNCHANGED <<disk, tasks, analysis_results, request, response, video_task,
                   audio_task, frame, posted, store>>

QueueNext == \E t \in TaskIds : ShareUrl(t) \/ QueuedAnalyzeVideo(t)

QueueSpec == QueueInit /\ [][QueueNext]_vars

\* ------------------------------------------------------------ the polls
\* GET /analysis_result/{task_id} called at any moment of two runs, for the
\* IDs of the two runs and for an ID no submission returned.  response holds
\* the last answer given for each ID.

NeverSubmitted == "t0"

PolledIds == Runs \cup {NeverSubmitted}

NotPolled == [status |-> "not_polled"]

PollInit ==
    /\ request = [t \in Runs |->
          [mode |-> "file_url", app_name |-> "empowerverse", identifier |-> "id1",
           is_christian_content |-> "False"]]
    /\ background_tasks = [t \in Runs |-> <<UrlArgs(request[t])>>]
    /\ frame = [t \in Runs |->
          [NoFrame EXCEPT !.app_name = "empowerverse",
                          !.identifier = "id1",
                          !.is_safe = TRUE,
                          !.content_warnings = <<"Content Moderation Timestamp">>,
                          !.base64_grids = <<1>>,
                          !.description = "description",
                          !.generate_description_calls = 1,
                          !.extract_video_metadata_calls = 1]]
    /\ tasks = [t \in Runs |-> UpdateAll(start_task(EmptyDict, t), t, PipelineUpdates)[t]]
    /\ analysis_results = EmptyDict
    /\ response = [task_id \in PolledIds |-> NotPolled]
    /\ fetched = EmptyDict
    /\ pc = [t \in Runs |-> "metadata"]
    /\ video_task = [t \in Runs |->
          [NoVideo EXCEPT !.pc = "done",
                          !.result = [is_safe |-> TRUE,
                                      warnings |-> <<"Content Moderation Timestamp">>,
                                      valid_grids |-> <<1>>]]]
    /\ audio_task = [t \in Runs |-> AudioReturned(AudioOkResult(<<>>))]
    /\ posted = [t \in Runs |-> <<>>]
    /\ disk = EmptyDict
    /\ store = StoreFile(tasks)

\* The handler reads analysis_results and the tracker's table with .get and
\* writes nothing.
Poll(task_id) ==
    /\ response' = [response EXCEPT ![task_id] = get_analysis_result(task_id)]
    /\ UNCHANGED <<tasks, store, analysis_results, request, fetched, background_tasks,
                   pc, video_task, audio_task, frame, posted, disk>>

PollNext ==
    \/ \E t \in Runs : CallbackSent(t) \/ CallbackAnswered(t)
    \/ \E task_id \in PolledIds : Poll(task_id)

PollSpec == PollInit /\ [][PollNext]_vars

\* ------------------------------------------------------------------ claims

Pending(t) == get_analysis_result(t).status = "pending"

PolledProgress(t) == get_analysis_result(t).progress

\* C1: for every task, the progress a poll returns never decreases from one
\* read to the next while the task is pending.  A poll can be served between
\* any two uninterrupted runs, so two successive states are two successive
\* reads.
C1_ProgressNeverDecreases ==
    [][\A t \in TaskIds :
          (Pending(t) /\ Pending(t)') => ~Less(PolledProgress(t)', PolledProgress(t))]_vars

Terminal(T, t) == t \in DOMAIN T /\ T[t].status \in {"completed", "error"}

\* C2: once a task is completed or error, no TaskTracker operation changes
\* its record, except a start_task that makes it a fresh record.
C2_TerminalRecordIsFrozen ==
    [][\A t \in TaskIds :
          Terminal(tasks, t) => (tasks'[t] = tasks[t] \/ tasks'[t] = NewTask)]_vars

ReturnedTaskId(t) == t \in DOMAIN response /\ "task_id" \in DOMAIN response[t]

\* C3: a raw-bytes or URL submission that returned a task ID reaches a
\* terminal outcome: when nothing is left to run for that task ID (every
\* collaborator call has returned), polling it returns completed or error,
\* not pending.
C3_SubmittedTaskEndsTerminal ==
    \A t \in TaskIds :
        (/\ ReturnedTaskId(t)
         /\ request[t].mode \in {"file_url", "video"}
         /\ ~ENABLED TaskStep(t))
            => get_analysis_result(t).status \in {"completed", "error"}

ZeroMontages(t) ==
    video_task[t].pc = "done" /\ video_task[t].result.valid_grids = <<>>

\* C4: when the visual branch yields no usable montage, the description and
\* metadata collaborators are never invoked, no later stage is entered, and
\* the task ends with status error and an error message.
C4_ZeroMontagesEndInError ==
    \A t \in TaskIds :
        ZeroMontages(t) =>
            /\ frame[t].generate_description_calls = 0
            /\ frame[t].extract_video_metadata_calls = 0
            /\ pc[t] \in {"gather", "returned"}
            /\ pc[t] = "returned" =>
                  /\ tasks[t].status = "error"
                  /\ analysis_results[t].status = "error"
                  /\ "message" \in DOMAIN analysis_results[t]

C4_Witness ==
    \E t \in TaskIds : ZeroMontages(t) /\ pc[t] = "returned"

PastJoin(t) == pc[t] \notin {"not_started", "gather"}

\* C5: the orchestrator leaves the stage-1 join, records a result or ends the
\* task only when both the visual and the audio branch have finished, also
\* when one of them failed.
C5_JoinWaitsForBothBranches ==
    \A t \in TaskIds :
        (PastJoin(t) \/ t \in DOMAIN analysis_results \/ Terminal(tasks, t))
            => GatherReturned(t)

C5_Witness ==
    \E t \in TaskIds :
        /\ PastJoin(t)
        /\ audio_task[t].result = AudioErrorResult
        /\ video_task[t].result.valid_grids # <<>>

DeliveryFailed(p) == p.outcome.raised \/ p.outcome.status_code # 200

\* C6: a task whose callback delivery failed (non-2xx response, transport
\* error, unusable URL) still ends completed, and polling returns its result.
C6_DeliveryFailureKeepsCompleted ==
    \A t \in TaskIds :
        (pc[t] = "returned" /\ \E i \in 1..Len(posted[t]) : DeliveryFailed(posted[t][i]))
            => /\ tasks[t].status = "completed"
               /\ get_analysis_result(t).status = "completed"

\* The task ran to the assembly of its AnalysisResult.
Assembled(t) == pc[t] = "returned" /\ frame[t].extract_video_metadata_calls > 0

\* C7: a task that assembled its result made exactly one callback request,
\* carrying that result and the submitted identifier, when an identifier was
\* submitted, and none when no identifier was submitted.
C7_OneCallbackIffIdentifier ==
    \A t \in TaskIds :
        Assembled(t) =>
            IF request[t].identifier # None
            THEN /\ Len(posted[t]) = 1
                 /\ posted[t][1].identifier = request[t].identifier
                 /\ posted[t][1].result = BuildResult(frame[t], frame[t].metadata)
            ELSE posted[t] = <<>>

\* The app_name analyze_video_task was called with.
TaskAppName(t) == background_tasks[t][1].app_name

\* C8: a callback of a task run for app_name 'empowerverse' goes to the
\* Empowerverse path + '/post/summary', one of a task run for 'wemotions'
\* to the Wemotions path + '/post/summary', and neither URL is empty.
C8_DestinationOfTheApplication ==
    \A t \in TaskIds : \A i \in 1..Len(posted[t]) :
        /\ TaskAppName(t) = "empowerverse"
              => /\ posted[t][i].api_url = EMPOWERVERSE_API_PATH \o "/post/summary"
                 /\ posted[t][i].api_url # ""
        /\ TaskAppName(t) = "wemotions"
              => /\ posted[t][i].api_url = WEMOTIONS_API_PATH \o "/post/summary"
                 /\ posted[t][i].api_url # ""

Is200(r) == ~r.raised /\ r.status_code = 200

\* C9: a URL submission all of whose fetch attempts failed answers with an
\* error, reports no started task and schedules no pipeline run.
C9_FailedFetchIsAnError ==
    \A t \in DOMAIN fetched :
        (request[t].mode = "file_url" /\ \A i \in 1..Len(fetched[t]) : ~Is200(fetched[t][i]))
            => /\ "error" \in DOMAIN response[t]
               /\ ~ReturnedTaskId(t)
               /\ background_tasks[t] = <<>>

\* C10: a URL submission makes at most 3 fetch attempts, none after the first
\* 200, and on that 200 schedules exactly one pipeline run for the task ID it
\* returns.
C10_FetchAttemptsBounded ==
    \A t \in DOMAIN fetched :
        request[t].mode = "file_url" =>
            LET log == fetched[t]
            IN /\ Len(log) <= 3
               /\ \A i \in 1..(Len(log) - 1) : ~Is200(log[i])
               /\ (Len(log) > 0 /\ Is200(log[Len(log)])) =>
                     /\ Len(background_tasks[t]) = 1
                     /\ ReturnedTaskId(t)
                     /\ response[t].task_id = t

C10_Witness ==
    \E t \in DOMAIN fetched :
        /\ request[t].mode = "file_url"
        /\ Len(fetched[t]) = 2
        /\ Is200(fetched[t][2])
        /\ Len(background_tasks[t]) = 1

\* The result recorded for a task that ran to its end.
Recorded(t) == t \in DOMAIN analysis_results

\* C11: every recorded result is either a completed record with all six
\* required fields (also when the metadata record was empty), or an error
\* record with exactly a status 'error' and a message.
C11_ResultShapes ==
    \A t \in TaskIds :
        Recorded(t) =>
            LET r == analysis_results[t]
            IN IF r.status = "completed"
               THEN RequiredFields \subseteq DOMAIN r
               ELSE r.status = "error" /\ DOMAIN r = {"status", "message"}

C11_Witness ==
    \E t \in TaskIds :
        /\ Recorded(t)
        /\ analysis_results[t].status = "completed"
        /\ frame[t].metadata = EmptyDict

Completed(t) == Recorded(t) /\ analysis_results[t].status = "completed"

OptionalFields == CopiedFields \cup {"no_of_person_in_video"}

\* C12: in a completed result each optional metadata field is present
\* exactly when the metadata record had it, and every one but
\* no_of_person_in_video carries the metadata's value unchanged.
C12_OptionalFieldsIffPresent ==
    \A t \in TaskIds :
        Completed(t) =>
            LET r == analysis_results[t]
                metadata == frame[t].metadata
            IN /\ \A k \in OptionalFields : k \in DOMAIN r <=> k \in DOMAIN metadata
               /\ \A k \in CopiedFields \cap DOMAIN metadata : r[k] = metadata[k]

C12_Witness ==
    \E t \in TaskIds :
        /\ Completed(t)
        /\ "topics" \in DOMAIN analysis_results[t]
        /\ "genre" \notin DOMAIN analysis_results[t]
        /\ "no_of_person_in_video" \in DOMAIN analysis_results[t]

\* A text made of decimal digits only, and the number it denotes.
DenotesNumber(chars) ==
    chars # <<>> /\ \A i \in 1..Len(chars) : chars[i] \in DecimalChars

\* C13: when metadata has no_of_person_in_video the task does not fail on
\* it and the result's value is the parsed integer for a text denoting a
\* number, 0 for any other text, and the metadata's value when it is not a
\* text.
C13_PersonCountNormalised ==
    \A t \in TaskIds :
        (pc[t] = "returned" /\ "no_of_person_in_video" \in DOMAIN frame[t].metadata)
            => /\ Completed(t)
               /\ LET v == frame[t].metadata["no_of_person_in_video"]
                      out == analysis_results[t]["no_of_person_in_video"]
                  IN IF v.type = "str"
                     THEN out = PyInt(IF DenotesNumber(v.chars)
                                      THEN DecimalValue(v.chars) ELSE 0)
                     ELSE out = v

\* C14: a completed task submitted with the classification flag, by upload
\* or by URL, has the is_christian_content sub-record with its three
\* sub-fields (false/null/null when the classification is absent); one
\* submitted without the flag has no is_christian_content key.
C14_ClassificationFollowsFlag ==
    \A t \in TaskIds :
        Completed(t) =>
            LET r == analysis_results[t]
                upstream == Get(frame[t].metadata, "is_christian_content", EmptyDict)
            IN IF request[t].is_christian_content = "True"
               THEN /\ "is_christian_content" \in DOMAIN r
                    /\ DOMAIN r["is_christian_content"] =
                          {"is_christian", "confidence_score", "indicators"}
                    /\ upstream = EmptyDict =>
                          r["is_christian_content"] =
                              [is_christian |-> FALSE, confidence_score |-> None,
                               indicators |-> None]
               ELSE "is_christian_content" \notin DOMAIN r

\* C15: polling a task whose TaskTracker status is completed or error
\* returns its terminal result, never a pending answer, also for a task
\* whose record was loaded from the data file after a restart.
C15_TerminalTaskPollsTerminal ==
    \A t \in TaskIds :
        Terminal(tasks, t) => get_analysis_result(t).status \in {"completed", "error"}

\* C16: after every mutating TaskTracker call the data file holds the
\* in-memory task table, so that a new TaskTracker loads the same records,
\* also when a write failed.
C16_StoreEqualsTable == load_data(store) = tasks

\* floor(durationMinutes) of a clip, duration = total_frames / fps (0 when
\* fps is not positive), by exact arithmetic.
FloorMinutes(total_frames, fps) ==
    IF fps[1] > 0 THEN (total_frames * fps[2]) \div (fps[1] * 60) ELSE 0

\* C17: split_video's segment count is clamp(floor(durationMinutes), 1, 5):
\* never below 1 nor above 5; 30 seconds give 1, 3.4 minutes give 3 and 20
\* minutes give 5.
C17_SegmentCountClamped ==
    \A t \in TaskIds :
        video_task[t].pc = "counted" =>
            LET v == video_task[t]
                m == FloorMinutes(v.total_frames, v.fps)
            IN /\ v.num_parts = (IF m < 1 THEN 1 ELSE IF m > 5 THEN 5 ELSE m)
               /\ v.num_parts \in 1..5
               /\ v.fps = Num(1) =>
                     /\ v.total_frames = 30 => v.num_parts = 1
                     /\ v.total_frames = 204 => v.num_parts = 3
                     /\ v.total_frames = 1200 => v.num_parts = 5

C17_Witness ==
    \E t \in TaskIds :
        /\ video_task[t].pc = "counted"
        /\ video_task[t].fps = Num(1)
        /\ video_task[t].total_frames = 1200
        /\ video_task[t].num_parts = 5

\* The chunk loop of t ran to its end and process_audio returned the text.
AllTranscribed(t) ==
    /\ audio_task[t].pc = "done"
    /\ audio_task[t].result # AudioErrorResult

\* C18: an audio track of L ms is cut into ceil(L / 600000) chunks; chunk i
\* covers [i*600000, min((i+1)*600000, L)), so the chunks are contiguous, do
\* not overlap, cover [0, L) exactly, none is longer than 600000 ms and only
\* the last may be shorter; 25 minutes give 3 chunks, the last one the rest.
C18_ChunksCoverTrack ==
    \A t \in TaskIds :
        LET a == audio_task[t]
            L == a.audio_length
            n == CHOOSE k \in 0..(L \div 600000 + 1) :
                     k * 600000 >= L /\ (k - 1) * 600000 < L
        IN /\ a.pc = "transcribing" \/ AllTranscribed(t) => a.num_chunks = n
           /\ AllTranscribed(t) =>
                 /\ Len(a.chunks) = n
                 /\ n > 0 => a.chunks[1][1] = 0 /\ a.chunks[n][2] = L
                 /\ L = 1500000 => n = 3 /\ a.chunks[3] = <<1200000, 1500000>>
           /\ \A k \in 1..Len(a.chunks) :
                 /\ a.chunks[k][1] = (k - 1) * 600000
                 /\ a.chunks[k][2] = (IF k * 600000 < L THEN k * 600000 ELSE L)
                 /\ a.chunks[k][2] > a.chunks[k][1]
                 /\ a.chunks[k][2] - a.chunks[k][1] <= 600000
                 /\ k < n => a.chunks[k][2] - a.chunks[k][1] = 600000
                 /\ k > 1 => a.chunks[k][1] = a.chunks[k - 1][2]

C18_Witness ==
    \E t \in TaskIds :
        /\ AllTranscribed(t)
        /\ audio_task[t].audio_length = 1500000
        /\ audio_task[t].chunks = <<<<0, 600000>>, <<600000, 1200000>>, <<1200000, 1500000>>>>

\* C20: when process_audio has returned, on whichever exit path (all chunks
\* transcribed, a chunk over the size cap, a chunk export failure), and no
\* unlink of the clean-up failed, no per-chunk temporary file created during
\* the call still exists.
C20_NoChunkFileLeft ==
    \A t \in TaskIds :
        audio_task[t].pc = "done" /\ ~audio_task[t].unlink_failed =>
            audio_task[t].files = {}

\* C19: on a segment of T >= 1 frames extract_frames seeks exactly 16
\* positions, the i-th being min(i * max(1, T div 16), T - 1) for i in 0..15;
\* every position is in 0..T-1 and the sequence never decreases; T = 40
\* gives 0, 2, 4, ..., 30.
C19_SixteenPositions ==
    \A t \in TaskIds :
        LET v == video_task[t]
            T == v.total_frames
            step == IF T \div 16 < 1 THEN 1 ELSE T \div 16
        IN v.pc = "extracted" /\ T >= 1 =>
              /\ Len(v.requested) = 16
              /\ \A i \in 0..15 :
                    /\ v.requested[i + 1] = (IF i * step < T - 1 THEN i * step ELSE T - 1)
                    /\ v.requested[i + 1] \in 0..(T - 1)
                    /\ i > 0 => v.requested[i] <= v.requested[i + 1]
              /\ T = 40 => v.requested = [k \in 1..16 |-> 2 * (k - 1)]

C19_Witness ==
    \E t \in TaskIds :
        /\ video_task[t].pc = "extracted"
        /\ video_task[t].total_frames = 40
        /\ video_task[t].requested[16] = 30
        /\ Len(video_task[t].frames) = 16

\* C21: once a task is terminal, and no unlink failed, neither the temporary
\* copy of the upload written by process_audio nor the extracted full-audio
\* file still exists, whatever the outcome of the chunking.
C21_NoMediaFileLeft ==
    \A t \in TaskIds :
        pc[t] = "returned" /\ Terminal(tasks, t) /\ ~audio_task[t].unlink_failed =>
            audio_task[t].media = {}

\* A chunk of t failed: its transcription attempt gave the error string, or
\* it was exported and rejected by the size check before any transcription.
ChunkFailure(t) ==
    \/ \E k \in DOMAIN audio_task[t].transcriptions :
          audio_task[t].transcriptions[k] = "Transcription error"
    \/ Len(audio_task[t].chunk_files) > Len(audio_task[t].transcriptions)

\* The result list is tagged as a failed transcription: an 'error' entry and
\* no 'text' entry.
FailedTranscription(result) ==
    /\ \E k \in DOMAIN result[1].items : "error" \in DOMAIN result[1].items[k].items
    /\ \A k \in DOMAIN result[1].items : "text" \notin DOMAIN result[1].items[k].items

\* C22: process_audio never raises to its caller, and whenever a chunk failed
\* (over the size cap, or its transcription attempt failed) it returns a
\* result tagged as failed transcription rather than a transcript.
C22_ChunkFailureReturnsError ==
    \A t \in TaskIds :
        /\ audio_task[t].pc # "raised"
        /\ audio_task[t].pc = "done" /\ ChunkFailure(t) =>
              FailedTranscription(audio_task[t].result)

\* process_audio of t reached its chunk loop and left it through the size
\* check: the only failure the pipeline has after "Starting audio
\* transcription".
OversizeChunk(t) ==
    /\ t \in DOMAIN tasks
    /\ StepIndex(tasks[t].steps, "Starting audio transcription") # 0
    /\ StepIndex(tasks[t].steps, "Error: " \o AudioErrorMsg) # 0

\* C23: a task one of whose audio chunks was over the size cap ends with
\* terminal status error, never completed with a result.
C23_OversizeChunkEndsInError ==
    \A t \in TaskIds :
        OversizeChunk(t) /\ pc[t] = "returned" =>
            /\ tasks[t].status = "error"
            /\ t \in DOMAIN analysis_results => analysis_results[t].status = "error"

\* The submission of t was answered with an error, reported no started task
\* and scheduled no pipeline run.
Rejected(t) ==
    /\ "error" \in DOMAIN response[t]
    /\ ~ReturnedTaskId(t)
    /\ background_tasks[t] = <<>>

\* The upload of t is no video: neither cv2 nor the audio loader can open it.
NotAVideo(t) ==
    /\ request[t].mode = "video"
    /\ video_task[t].result = VideoError
    /\ audio_task[t].result = AudioErrorResult

\* C24: a submission with no usable media, neither a file nor a URL or an
\* upload that is not a video, is answered with an error, reports no started
\* task and schedules no pipeline run.
C24_NoMediaIsRejected ==
    \A t \in DOMAIN request :
        request[t].mode = "neither" \/ NotAVideo(t) => Rejected(t)

\* C25: while the content-moderation call of a task is in progress the task
\* is past its stage-1 join: both the visual and the audio branch have
\* returned, and no audio branch is still running.
C25_ModerationAfterJoin ==
    \A t \in TaskIds :
        video_task[t].pc = "moderating" =>
            /\ PastJoin(t)
            /\ audio_task[t].pc = "done"

\* C26: a callback request is sent only after the task's completion: when it
\* goes out the tracker already holds status completed and progress 100 for
\* the task.
C26_CallbackAfterCompletion ==
    \A t \in TaskIds : \A i \in 1..Len(posted[t]) :
        posted[t][i].api_url # "" =>
            /\ posted[t][i].status = "completed"
            /\ posted[t][i].current_progress = Num(100)

\* C27: in a URL submission a fetch attempt that raised a transport error is
\* retried like a non-200 response: unless it was the third attempt, another
\* attempt follows it.
C27_TransportErrorIsRetried ==
    \A t \in DOMAIN fetched :
        request[t].mode = "file_url" =>
            \A i \in 1..Len(fetched[t]) :
                fetched[t][i].raised /\ i < MAX_RETRIES => Len(fetched[t]) > i

\* C28: when the description call of one montage failed, the grid analysis
\* ends with one entry per montage: the error string for the failing one, the
\* description of each of the others; and the task goes on.
C28_GridFailureIsLocal ==
    \A t \in TaskIds :
        LET f == frame[t]
        IN (pc[t] = "final" /\ \E k \in DOMAIN f.grid_descriptions :
                                    f.grid_descriptions[k] = GridErrorMsg)
           => /\ Len(f.grid_descriptions) = Len(f.base64_grids)
              /\ \E k \in DOMAIN f.grid_descriptions :
                    \A j \in DOMAIN f.grid_descriptions :
                        f.grid_descriptions[j] =
                            (IF j = k THEN GridErrorMsg
                             ELSE "grid " \o ToString(f.base64_grids[j]))

\* The media files task t created and still uses: its process_audio call's
\* files while it waits for the transcription, then the audio file its
\* result names until analyze_video_task has returned.
FilesInUse(t) ==
    LET a == audio_task[t]
    IN IF a.pc = "transcribing"
       THEN {a.temp_video_file, a.chunk_file, a.audio_filename}
       ELSE IF a.pc = "done" /\ pc[t] = "gather"
       THEN {a.result[2]} \ {None}
       ELSE {}

\* C29: media files are never shared across tasks: the paths two tasks
\* running together have created and still use are distinct, and each such
\* file exists and holds what its own task wrote: no other task's write or
\* clean-up has touched it.
C29_MediaFilesNotShared ==
    \A t \in Runs :
        /\ \A u \in Runs \ {t} : FilesInUse(t) \cap FilesInUse(u) = {}
        /\ \A path \in FilesInUse(t) : path \in DOMAIN disk /\ disk[path] = t

\* C30: each chunk's temporary file is deleted right after that chunk's
\* transcription attempt, so at most one chunk file exists at any time during
\* process_audio.
C30_OneChunkFileAtATime ==
    \A t \in TaskIds : Cardinality(audio_task[t].files) <= 1

\* C31: the callback delivery of one task is a suspension point: while task
\* a is inside it, a second running task b whose awaited call has returned
\* is still able to take its next step.
C31_DeliveryDoesNotBlock ==
    \A a \in Runs : \A b \in Runs \ {a} :
        pc[a] = "posting" /\ pc[b] = "metadata" => ENABLED CallbackSent(b)

\* C32: extract_frames puts the frame of sample index i at grid cell
\* (column i mod 4, row i div 4); the cell of a sample index whose read
\* failed stays blank and later frames keep their own cells.
C32_FrameKeepsItsCell ==
    \A t \in TaskIds :
        LET v == video_task[t]
        IN v.pc = "extracted" /\ v.grid # None =>
              /\ \A cell \in DOMAIN v.cells : v.cells[cell] = cell[2] * 4 + cell[1]
              /\ \A i \in 0..15 :
                    (<<i % 4, i \div 4>> \in DOMAIN v.cells)
                        <=> (\E k \in DOMAIN v.frames : v.frames[k].i = i)

\* C33: extract_frames on a segment of 0 frames fails with an error: its
\* outcome differs from the one of a segment with frames of which none could
\* be read, which is the return value None.
C33_EmptySegmentIsAnError ==
    \A t \in TaskIds :
        video_task[t].pc = "extracted" /\ video_task[t].total_frames = 0 =>
            video_task[t].raised \/ video_task[t].grid # None

\* The text process_audio returned.
combined_text(t) == audio_task[t].result[1].items[1].items.text

\* C34: the audio chunks are transcribed one at a time in index order: while
\* the transcription of chunk i is awaited, exactly the chunks before i have
\* their transcripts and no later chunk has been cut; the transcript
\* returned is the chunk transcripts in chunk order, a single space between
\* two neighbours.
C34_ChunksInOrderJoinedBySpace ==
    \A t \in TaskIds :
        LET a == audio_task[t]
            n == Len(a.transcriptions)
            joined[k \in 0..n] ==
                IF k = 0 THEN ""
                ELSE IF k = 1 THEN a.transcriptions[1]
                ELSE joined[k - 1] \o " " \o a.transcriptions[k]
        IN /\ \A k \in 1..n : a.transcriptions[k] \in Transcriptions(k)
           /\ a.pc = "transcribing" =>
                 /\ n = a.i
                 /\ Len(a.chunks) = a.i + 1
                 /\ a.chunk_files = [k \in 1..(a.i + 1) |-> ChunkName(k - 1)]
           /\ AllTranscribed(t) =>
                 /\ n = a.num_chunks
                 /\ combined_text(t) = joined[n]
                 /\ a.transcriptions = <<"text1", "text2", "text3">> =>
                       combined_text(t) = "text1 text2 text3"

C34_Witness ==
    \E t \in TaskIds :
        /\ AllTranscribed(t)
        /\ audio_task[t].transcriptions = <<"text1", "text2", "text3">>
        /\ combined_text(t) = "text1 text2 text3"

\* C35: when split_video has returned or raised, a failure in the middle of
\* the loop included, and no unlink failed, neither the temporary input file
\* nor any per-part output file still exists.
C35_NoSplitFileLeft ==
    \A t \in TaskIds :
        video_task[t].pc \in {"returned", "raised"} /\ ~video_task[t].unlink_failed =>
            video_task[t].files = {}

\* C36: every update_progress call leaves the table holding the reported
\* step and the reported progress for its task, whatever calls of the other
\* task came before, and leaves the records of all other tasks as they were.
C36_UpdateIsNotLost ==
    [][\A t \in Runs :
          pc'[t] = "returned" /\ frame'[t].method = "update_progress" =>
              /\ t \in DOMAIN tasks'
              /\ tasks'[t].current_progress = frame'[t].progress
              /\ \E k \in DOMAIN tasks'[t].steps :
                    /\ tasks'[t].steps[k].name = frame'[t].step_name
                    /\ tasks'[t].steps[k].progress = frame'[t].progress
              /\ DOMAIN tasks' = DOMAIN tasks \cup {t}
              /\ \A u \in DOMAIN tasks \ {t} : tasks'[u] = tasks[u]]_vars

\* t2 reported 10 for step "a", then t1 reported 65/2 and later 10 for its
\* own step "a": both records hold what was reported last.
C36_Witness ==
    /\ pc["t1"] = "returned"
    /\ frame["t1"] = [method |-> "update_progress", step_name |-> "a", progress |-> Num(10)]
    /\ DOMAIN tasks = Runs
    /\ tasks["t1"].current_progress = Num(10)
    /\ tasks["t1"].steps = <<[name |-> "b", progress |-> Frac(65, 2), ended |-> FALSE],
                             [name |-> "a", progress |-> Num(10), ended |-> FALSE]>>
    /\ tasks["t2"].current_progress = Frac(65, 2)

\* C37: the overall progress is always an integer in 0..100: every value
\* update_progress was given, kept as the progress of its step and as the
\* overall progress, is whole and between 0 and 100.
C37_ProgressIsWholePercent ==
    \A t \in DOMAIN tasks :
        LET reported == {tasks[t].current_progress}
                        \cup {tasks[t].steps[k].progress : k \in DOMAIN tasks[t].steps}
        IN \A p \in reported :
              /\ IsWhole(p)
              /\ ~Less(p, Num(0))
              /\ ~Less(Num(100), p)

\* C38: the record complete_task returned is a snapshot: whatever mutation
\* of the same task ID follows, the record, its nested steps included, reads
\* as it did when it was returned.
C38_ReturnedRecordIsSnapshot ==
    \A t \in TaskIds :
        response[t].state = "returned" =>
            Read(tasks, t, response[t]) = response[t].returned

\* Whether the share_url request of t queued an analysis.
AnalysisQueued(t) == background_tasks[t] # <<>> \/ pc[t] # "not_started"

\* C39: share_url with a valid token answers a body that lacks 'url' or
\* 'identifier' with the error 'url and identifier are required fields' and
\* queues no analysis; an analysis is queued only when both are present.
C39_UrlAndIdentifierRequired ==
    \A t \in DOMAIN request :
        LET data == request[t].data
            lacking == "url" \notin DOMAIN data \/ "identifier" \notin DOMAIN data
        IN request[t].flic_token \in {EMPOWERVERSE_API_KEY, WEMOTIONS_API_KEY} =>
              /\ lacking => response[t] = FieldsRequired /\ ~AnalysisQueued(t)
              /\ AnalysisQueued(t) => ~lacking

\* C40: a poll for a task ID that was never submitted is answered with
\* {status: pending, progress: 0} and changes no state: neither the table
\* nor the results nor the data file, and no record appears for the ID.
C40_UnknownIdIsPending ==
    [][\A task_id \in PolledIds \ DOMAIN request :
          response'[task_id] # response[task_id] =>
              /\ response'[task_id] = [status |-> "pending", progress |-> Num(0)]
              /\ UNCHANGED <<tasks, analysis_results, store>>
              /\ task_id \notin DOMAIN tasks' \cup DOMAIN analysis_results']_vars

\* The unknown ID was polled while one run had ended and the other had not.
C40_Witness ==
    /\ response[NeverSubmitted] = [status |-> "pending", progress |-> Num(0)]
    /\ NeverSubmitted \notin DOMAIN tasks \cup DOMAIN analysis_results
    /\ pc["t1"] = "returned"
    /\ pc["t2"] = "metadata"

====
